---- MODULE Spec2Model ----
(***************************************************************************)
(* Network renderer (network.js, src/unnamed/part_001) and time slider     *)
(* (slider.js) of the pathpy visualisation templates.                      *)
(*                                                                         *)
(* JavaScript objects are functions from attribute names to values: an     *)
(* attribute that is undefined is absent from the DOMAIN, and              *)
(* Object.assign(o, p) is p @@ o.  Strings that the code concatenates,     *)
(* lower-cases or searches are sequences of one-character strings.  A node *)
(* object is referred to by its index in allData.nodes, a link object by   *)
(* its index in allData.links.  A d3 transition is taken at its end state. *)
(* An exception thrown by a handler ends the handler where it is thrown    *)
(* and is recorded in err; the event loop goes on with the next event.     *)
(***************************************************************************)
EXTENDS Integers, Sequences, FiniteSets, TLC

\* ------------------------------------------------------------ constants
width == 400
height == 400
radiusMinSize == 4
radiusMaxSize == 16
DefaultSize == 6
Margin == 10

DefaultColor == "#99ccff"
SearchColor == "#F38630"

\* ------------------------------------------------------------ helpers
Min(a, b) == IF a <= b THEN a ELSE b
Max(a, b) == IF a >= b THEN a ELSE b
SetMin(S) == CHOOSE m \in S : \A y \in S : m <= y
SetMax(S) == CHOOSE m \in S : \A y \in S : m >= y
Has(o, k) == k \in DOMAIN o

RECURSIVE SelectIdx(_, _, _)
\* the indices i of s, in order, with keep[i]: Array.prototype.filter on references
SelectIdx(n, keep, i) ==
  IF i > n THEN <<>>
  ELSE (IF keep[i] THEN <<i>> ELSE <<>>) \o SelectIdx(n, keep, i + 1)

\* ------------------------------------------------------------ payloads
\* node and link attributes of the input payload (spec section 6)
NodeA == [uid |-> <<"a">>, label |-> <<"A", "b">>, group |-> "g1", color |-> "red",
          size |-> 2, euclidean |-> <<0, 0>>]
NodeB == [uid |-> <<"b">>, group |-> "g1", size |-> 6, euclidean |-> <<4, 2>>]
NodeC == [uid |-> <<"c">>, group |-> "g2", color |-> "blue", size |-> 4,
          euclidean |-> <<2, 6>>]
NodeD == [uid |-> <<"d">>, group |-> ""]

\* the scenario of spec section 8, with change records
PayScenario ==
  [nodes |-> <<NodeA, NodeB, NodeC>>,
   links |-> << [source |-> <<"a">>, target |-> <<"b">>, time |-> 1],
                [source |-> <<"b">>, target |-> <<"c">>, time |-> 2] >>,
   changes |-> << [uid |-> <<"a">>, time |-> 1, color |-> "green"],
                  [uid |-> <<"a">>, time |-> 1, color |-> "black"],
                  [uid |-> <<"b">>, time |-> 2, group |-> "g2", size |-> 9] >>]
\* a link to a node that is not in the payload
PayDangling ==
  [nodes |-> <<NodeA, NodeB>>,
   links |-> << [source |-> <<"a">>, target |-> <<"b">>, time |-> 1],
                [source |-> <<"a">>, target |-> <<"z">>, time |-> 1] >>,
   changes |-> <<>>]
\* optional fields left out: changes, time, group, color, size, euclidean
PayPlain ==
  [nodes |-> <<NodeC, NodeD, NodeA>>,
   links |-> << [source |-> <<"c">>, target |-> <<"d">>],
                [source |-> <<"a">>, target |-> <<"c">>, time |-> 0] >>]
\* two links between the same two nodes at different times, and a link without a
\* timestamp; an empty list of changes
PayRepeated ==
  [nodes |-> <<NodeA, NodeB, NodeC>>,
   links |-> << [source |-> <<"a">>, target |-> <<"b">>, time |-> 1],
                [source |-> <<"a">>, target |-> <<"b">>, time |-> 2],
                [source |-> <<"b">>, target |-> <<"c">>] >>,
   changes |-> <<>>]
\* the nodes and links of the scenario with an empty list of changes
PayTimeline == [PayScenario EXCEPT !.changes = <<>>]

Groups == {"all", "g1", "", "g9"}
Layouts == {"force", "euclidean"}

\* ------------------------------------------------------------ state
VARIABLES
  temporal,       \* config.temporal
  layout,         \* 'force' | 'euclidean'
  filter,         \* the group filter, 'all' at construction
  time,           \* the window {past, time, aggregated, future}
  svg,            \* TRUE once chart() has created the svg element
  allData,        \* {} until setupData has returned, then the payload
  staleData,      \* <<>>, or <<d>>: the scene is still bound to the objects of d
  linkedByIndex,  \* keys 'source_target' set to 1
  countExtent,    \* d3.extent of the node sizes, <<>> before the first load
  nodes,          \* the node selection, <<>> while null or empty
  edges,          \* the edge selection
  drawn,          \* FALSE while nodes and edges are null
  simNodes,       \* simulation.nodes()
  forces,         \* the named forces attached to the simulation
  alpha,          \* simulation.alpha(), in tenths
  alphaTarget,    \* simulation.alphaTarget(), in tenths
  sim,            \* the simulation's timer: "stopped", "running", or "ended"
  lastOp,         \* the operation that ran last, with its argument
  err             \* the exception it threw, "none" if it returned

netVars == <<temporal, layout, filter, time, svg, allData, staleData, linkedByIndex,
             countExtent, nodes, edges, drawn, simNodes, forces, alpha, alphaTarget, sim,
             lastOp, err>>

\* the closure state of network(config) as one value
Net ==
  [temporal |-> temporal, layout |-> layout, filter |-> filter, time |-> time,
   svg |-> svg, allData |-> allData, staleData |-> staleData,
   linkedByIndex |-> linkedByIndex, countExtent |-> countExtent, nodes |-> nodes,
   edges |-> edges, drawn |-> drawn, simNodes |-> simNodes, forces |-> forces,
   alpha |-> alpha, alphaTarget |-> alphaTarget, sim |-> sim, err |-> "none"]

SetNet(S, op) ==
  /\ temporal' = S.temporal
  /\ layout' = S.layout
  /\ filter' = S.filter
  /\ time' = S.time
  /\ svg' = S.svg
  /\ allData' = S.allData
  /\ staleData' = S.staleData
  /\ linkedByIndex' = S.linkedByIndex
  /\ countExtent' = S.countExtent
  /\ nodes' = S.nodes
  /\ edges' = S.edges
  /\ drawn' = S.drawn
  /\ simNodes' = S.simNodes
  /\ forces' = S.forces
  /\ alpha' = S.alpha
  /\ alphaTarget' = S.alphaTarget
  /\ sim' = S.sim
  /\ lastOp' = op
  /\ err' = S.err

Throw(S, e) == [S EXCEPT !.err = e]

\* ------------------------------------------------------------ accessors
getColor(d) == IF Has(d, "color") THEN d.color ELSE DefaultColor
getWeight(d) == IF Has(d, "weight") THEN d.weight ELSE 1
getSize(d) == IF Has(d, "size") THEN d.size ELSE DefaultSize
getName(d) == IF Has(d, "label") THEN d.label ELSE d.uid

\* d3.scaleLinear().domain([d0, d1]).range([r0, r1])(v) as the fraction <<num, den>>;
\* a domain of one point maps to the middle of the range; there is no clamping
scaleLinear(d0, d1, r0, r1, v) ==
  IF d1 = d0 THEN <<r0 + r1, 2>>
  ELSE <<r0 * (d1 - d0) + (v - d0) * (r1 - r0), d1 - d0>>

scaleRadius(extent, n) ==
  scaleLinear(extent[1], extent[2], radiusMinSize, radiusMaxSize, getSize(n))

\* d3.map(nodesData, uid).get(id): the last node with this uid, 0 for undefined
nodesMapGet(nodesData, id) ==
  LET hits == {i \in DOMAIN nodesData : nodesData[i].uid = id}
  IN IF hits = {} THEN 0 ELSE SetMax(hits)

\* ------------------------------------------------------------ setupData
d3extent(nodesData) ==
  IF nodesData = <<>> THEN <<>>
  ELSE LET sizes == {getSize(nodesData[i]) : i \in DOMAIN nodesData}
       IN <<SetMin(sizes), SetMax(sizes)>>

\* l.source = nodesMap.get(l.source); l.target = ...; l.uid = source.uid + '_' + target.uid
resolveLink(nodesData, l) ==
  LET s == nodesMapGet(nodesData, l.source)
      t == nodesMapGet(nodesData, l.target)
  IN ("uid" :> (nodesData[s].uid \o <<"_">> \o nodesData[t].uid))
       @@ [l EXCEPT !.source = s, !.target = t]

isDangling(nodesData, l) ==
  nodesMapGet(nodesData, l.source) = 0 \/ nodesMapGet(nodesData, l.target) = 0

\* [net, data, thrown]: l.source.uid of an unresolved link throws a TypeError inside
\* the forEach, after countExtent and the keys of the links before it are written
setupData(S, data) ==
  LET ext == d3extent(data.nodes)
      ns == [i \in DOMAIN data.nodes |->
               ("radius" :> scaleRadius(ext, data.nodes[i])) @@ data.nodes[i]]
      bad == {i \in DOMAIN data.links : isDangling(ns, data.links[i])}
      upto == IF bad = {} THEN Len(data.links) ELSE SetMin(bad) - 1
      ls == [i \in DOMAIN data.links |->
               IF i <= upto THEN resolveLink(ns, data.links[i]) ELSE data.links[i]]
      S1 == [S EXCEPT !.countExtent = ext,
                      !.linkedByIndex = @ \cup {ls[i].uid : i \in 1..upto}]
  IN IF bad = {}
     THEN [net |-> S1, data |-> [data EXCEPT !.nodes = ns, !.links = ls], thrown |-> FALSE]
     ELSE [net |-> Throw(S1, "TypeError"), data |-> data, thrown |-> TRUE]

\* ------------------------------------------------------------ filters
\* the callback returns d.group, which Array.prototype.filter reads as a boolean:
\* the empty string is falsy
Truthy(str) == str # ""

filterNodes(S, nodesData) ==
  IF S.filter # "all"
  THEN SelectIdx(Len(nodesData),
                 [i \in DOMAIN nodesData |->
                    /\ Has(nodesData[i], "group")
                    /\ S.filter = nodesData[i].group
                    /\ Truthy(nodesData[i].group)], 1)
  ELSE [i \in DOMAIN nodesData |-> i]

\* a filterEdges that keeps every link, whatever nodes are given
filterEdgesKeepAll(edgesData, nodesData, considered) ==
  [i \in DOMAIN edgesData |-> i]

\* the links whose source.uid and target.uid are uids of the given nodes
filterEdges(edgesData, nodesData, considered) ==
  LET uids == {nodesData[considered[i]].uid : i \in DOMAIN considered}
  IN SelectIdx(Len(edgesData),
               [i \in DOMAIN edgesData |->
                  /\ nodesData[edgesData[i].source].uid \in uids
                  /\ nodesData[edgesData[i].target].uid \in uids], 1)

\* a window filter that passes every timed edge
inWindowAnyTime(S, d) == Has(d, "time")

\* a window that is open at its future end
inWindowOpenEnd(S, d) ==
  Has(d, "time") /\ d.time >= S.time.past /\ d.time < S.time.future

\* a window that lets a link without a timestamp through
inWindowOrUntimed(S, d) ==
  ~Has(d, "time") \/ (d.time >= S.time.past /\ d.time <= S.time.future)

\* d.time >= time.past && d.time <= time.future; undefined compares false
inWindow(S, d) == Has(d, "time") /\ d.time >= S.time.past /\ d.time <= S.time.future

filterTemporalEdges(S, edgesData, filtered) ==
  SelectIdx(Len(filtered),
            [j \in DOMAIN filtered |-> inWindow(S, edgesData[filtered[j]])], 1)

\* SelectIdx gives positions in `filtered`; the links themselves
temporalEdges(S, edgesData, filtered) ==
  LET pos == filterTemporalEdges(S, edgesData, filtered)
  IN [j \in DOMAIN pos |-> filtered[pos[j]]]

\* ------------------------------------------------------------ temporal changes
\* findIndex(obj => obj.uid == n.uid) over the filtered nodes, 0 for -1
findIndex(nodesData, considered, id) ==
  LET hits == {j \in DOMAIN considered : nodesData[considered[j]].uid = id}
  IN IF hits = {} THEN 0 ELSE SetMin(hits)

RECURSIVE applyChanges(_, _, _, _, _)
\* newChanges.forEach: Object.assign(node, n) for each record of the current instant
applyChanges(nodesData, considered, changesData, now, k) ==
  IF k > Len(changesData) THEN nodesData
  ELSE LET n == changesData[k]
           j == findIndex(nodesData, considered, n.uid)
       IN IF n.time = now /\ j > 0
          THEN applyChanges([nodesData EXCEPT ![considered[j]] = n @@ @],
                            considered, changesData, now, k + 1)
          ELSE applyChanges(nodesData, considered, changesData, now, k + 1)

\* the records taken last to first, so that the earlier record of a uid wins
updateTemporalNodesEarlierWins(S, nodesData, considered, changesData) ==
  applyChanges(nodesData, considered,
               [k \in DOMAIN changesData |-> changesData[Len(changesData) + 1 - k]],
               S.time.time, 1)

updateTemporalNodes(S, nodesData, considered, changesData) ==
  applyChanges(nodesData, considered, changesData, S.time.time, 1)

\* ------------------------------------------------------------ layout
charge == -20

\* the force names the code uses; forces[name] is <<>> for no force, <<f>> for f
ForceNames == {"links", "center", "charge", "x", "y"}
NoForces == [k \in ForceNames |-> <<>>]
\* simulation.force(name, f) and simulation.force(name, null)
setForce(fs, name, f) == [fs EXCEPT ![name] = <<f>>]
dropForce(fs, name) == [fs EXCEPT ![name] = <<>>]
attached(fs) == {k \in ForceNames : fs[k] # <<>>}

setupNetworkLayout(S, edgesData) ==
  LET f1 == setForce(S.forces, "links", edgesData)
      f2 == setForce(f1, "center", <<width \div 2, height \div 2>>)
      f3 == setForce(f2, "charge", charge)
  IN [S EXCEPT !.forces = dropForce(dropForce(f3, "x"), "y")]

\* value.euclidean[0] of a node without coordinates throws a TypeError, after the
\* center and links forces are removed and the charge is set
setupEuclideanLayout(S) ==
  LET nd == S.allData.nodes
      f1 == setForce(dropForce(dropForce(S.forces, "center"), "links"), "charge", charge)
      S1 == [S EXCEPT !.forces = f1]
  IN IF \E i \in DOMAIN nd : ~Has(nd[i], "euclidean")
     THEN Throw(S1, "TypeError")
     ELSE LET xs == {nd[i].euclidean[1] : i \in DOMAIN nd}
              ys == {nd[i].euclidean[2] : i \in DOMAIN nd}
              xScale(v) == scaleLinear(SetMin(xs), SetMax(xs), Margin, width - Margin, v)
              yScale(v) == scaleLinear(SetMin(ys), SetMax(ys), Margin, height - Margin, v)
              xForce == [j \in DOMAIN S.simNodes |-> xScale(nd[S.simNodes[j]].euclidean[1])]
              yForce == [j \in DOMAIN S.simNodes |-> yScale(nd[S.simNodes[j]].euclidean[2])]
          IN [S1 EXCEPT !.forces = setForce(setForce(f1, "x", xForce), "y", yForce)]

\* ------------------------------------------------------------ scene
\* the objects the elements of the scene are bound to
boundData(S) == IF S.staleData = <<>> THEN S.allData ELSE S.staleData[1]

\* selectAll('.node').data(nodesData): joined by index; an element that stays keeps
\* its classes, one that enters has none, the others exit; all get r and fill
renderNodes(S, nodesData) ==
  LET nd == S.allData.nodes
      el(j) == IF j <= Len(S.nodes) THEN S.nodes[j]
               ELSE [datum |-> 0, r |-> <<0, 1>>, fill |-> "",
                     node_search |-> FALSE, node_highlight |-> FALSE]
  IN [S EXCEPT !.nodes =
        [j \in DOMAIN nodesData |->
           [el(j) EXCEPT !.datum = nodesData[j],
                         !.r = scaleRadius(S.countExtent, nd[nodesData[j]]),
                         !.fill = getColor(nd[nodesData[j]])]]]

\* selectAll('.edge').data(edgesData, d => d.uid): joined by key; the first datum of
\* a key takes the first element of that key, any other datum of the key enters
renderEdges(S, edgesData) ==
  LET ls == S.allData.links
      old == boundData(S).links
      key(j) == ls[edgesData[j]].uid
      first(j) == \A i \in 1..(j - 1) : key(i) # key(j)
      hits(j) == {i \in DOMAIN S.edges : old[S.edges[i].datum].uid = key(j)}
      el(j) == IF first(j) /\ hits(j) # {} THEN S.edges[SetMin(hits(j))]
               ELSE [datum |-> 0, edge_active |-> TRUE, edge_highlight |-> FALSE]
  IN [S EXCEPT !.edges = [j \in DOMAIN edgesData |-> [el(j) EXCEPT !.datum = edgesData[j]]],
               !.staleData = <<>>,
               !.drawn = TRUE]

\* the classification turned round: context in [time, aggregated]
isContextInside(S, d) ==
  Has(d, "time") /\ d.time >= S.time.time /\ d.time <= S.time.aggregated

\* edges.classed('edge_active', ...): false in [past, time) and in (aggregated, future]
isContext(S, d) ==
  \/ Has(d, "time") /\ d.time >= S.time.past /\ d.time < S.time.time
  \/ Has(d, "time") /\ d.time > S.time.aggregated /\ d.time <= S.time.future

renderTemporalEdges(S) ==
  [S EXCEPT !.edges = [j \in DOMAIN S.edges |->
     [S.edges[j] EXCEPT !.edge_active = ~isContext(S, S.allData.links[S.edges[j].datum])]]]

\* ------------------------------------------------------------ simulation
\* alpha, its minimum and its target are counted in tenths: d3.forceSimulation()
\* starts at alpha 1, .alphaMin(0.1), and the drag handlers set the target 0.2
AlphaStart == 10
alphaMin == 1
DragTarget == 2

\* simulation.alpha(1).restart()
restart(S) == [S EXCEPT !.alpha = AlphaStart, !.sim = "running"]

\* one step of the simulation's timer: alpha moves towards its target, the tick
\* handler repositions the scene, and below alphaMin the timer stops and 'end' fires
simStep(S) ==
  LET a == IF S.alpha > S.alphaTarget THEN S.alpha - 1
           ELSE IF S.alpha < S.alphaTarget THEN S.alpha + 1 ELSE S.alpha
  IN [S EXCEPT !.alpha = a, !.sim = IF a < alphaMin THEN "ended" ELSE "running"]

\* ------------------------------------------------------------ render
\* before a payload is loaded allData.nodes is undefined and every path throws
\* before it writes; with temporal set, changesData.filter throws when the payload
\* has no changes; svg.select throws while svg is null
render(S) ==
  IF ~Has(S.allData, "nodes") THEN Throw(S, "TypeError")
  ELSE
    LET filteredNodes == filterNodes(S, S.allData.nodes)
    IN IF S.temporal /\ ~Has(S.allData, "changes") THEN Throw(S, "TypeError")
       ELSE
         LET nd == IF S.temporal
                   THEN updateTemporalNodes(S, S.allData.nodes, filteredNodes,
                                            S.allData.changes)
                   ELSE S.allData.nodes
             S1 == [S EXCEPT !.allData.nodes = nd]
             filteredEdges == filterEdges(S1.allData.links, nd, filteredNodes)
             considerdEdges == IF S.temporal
                               THEN temporalEdges(S1, S1.allData.links, filteredEdges)
                               ELSE filteredEdges
             S2 == [S1 EXCEPT !.simNodes = filteredNodes]
             S3 == IF S2.layout = "euclidean" THEN setupEuclideanLayout(S2)
                   ELSE setupNetworkLayout(S2, considerdEdges)
         IN IF S3.err # "none" THEN S3
            ELSE IF ~S3.svg THEN Throw(S3, "TypeError")
            ELSE LET S4 == renderEdges(renderNodes(S3, filteredNodes), considerdEdges)
                 IN restart(IF S.temporal THEN renderTemporalEdges(S4) ELSE S4)

\* ------------------------------------------------------------ slider scales
\* Pixel positions are counted in ticks of targetValue / (Unit * timeSteps) pixels,
\* so that a step is Unit ticks and the track is Unit * timeSteps ticks wide; a
\* step value (the domain of x) is carried as its tick count, value * Unit.
Unit == 2
MaxSteps == 2
\* the number of inputs of the user that are followed, where they are counted: on
\* the zoom controls, and on the slider while it plays
MaxInputs == 8
MaxClicks == 3
Thousand == 1000

targetValue(N) == Unit * N

clamp(v, lo, hi) == IF v < lo THEN lo ELSE IF v > hi THEN hi ELSE v

\* x = d3.scaleLinear().domain([0, timeSteps]).range([0, targetValue]).clamp(true)
xScale(N, valueTicks) == clamp(valueTicks, 0, targetValue(N))
xInvert(N, px) == clamp(px, 0, targetValue(N))
\* x(delta) for a delta given in steps
xDelta(N, delta) == xScale(N, delta * Unit)

RECURSIVE groups(_)
\* d3.format(",.0f"): rounded to an integer (toFixed: a half rounds up), the digits
\* grouped by three with commas; the groups of the string, first group first
groups(r) == IF r < Thousand THEN <<r>> ELSE groups(r \div Thousand) \o <<r % Thousand>>
formatInt(valueTicks) == groups((2 * valueTicks + Unit) \div (2 * Unit))
\* parseInt reads the digits up to the first comma
parseInt(str) == str[1]

\* ------------------------------------------------------------ zoom
\* d3.zoomIdentity: scale 1, and the centre of the viewport shows the scene point
\* that lies there
zoomIdentity == [k |-> <<1, 1>>, cx |-> width \div 2, cy |-> height \div 2]

\* .scaleExtent([1/2, 4])
scaleExtent == << <<1, 2>>, <<4, 1>> >>

RECURSIVE gcd(_, _)
gcd(a, b) == IF b = 0 THEN a ELSE gcd(b, a % b)
fraction(n, d) == <<n \div gcd(n, d), d \div gcd(n, d)>>
times(k, f) == fraction(k[1] * f[1], k[2] * f[2])
less(k, l) == k[1] * l[2] < l[1] * k[2]

\* a zoom behaviour without a scale extent
scaleUnlimited(t, k) == [t EXCEPT !.k = k]

\* scale(transform, k) of d3-zoom: k is limited by the scale extent
scale(t, k) ==
  [t EXCEPT !.k = IF less(k, scaleExtent[1]) THEN scaleExtent[1]
                  ELSE IF less(scaleExtent[2], k) THEN scaleExtent[2] ELSE k]

\* zoom.scaleBy(selection, f): the scene point at the centre of the extent stays
scaleBy(t, f) == scale(t, times(t.k, f))

\* zoomed: svg.selectAll('g').attr("transform", d3.event.transform)
zoomed(t) == <<t>>

\* a handler that does not look at the key
zoomedWithKeyAlways(shown, shiftKey, t) == <<t>>

\* zoomedWithKey, with shown the attribute as it is: returns when
\* d3.event.sourceEvent.shiftKey is false
zoomedWithKey(shown, shiftKey, t) == IF ~shiftKey THEN shown ELSE <<t>>

\* transition(zoomLevel): svg.transition().call(zoom.scaleBy, zoomLevel)
\* 1.2 is 6/5 and 0.8 is 4/5
ZoomIn == <<6, 5>>
ZoomOut == <<4, 5>>

\* ------------------------------------------------------------ public operations
\* chart(selector, rawData): setupData, then the svg element, then render
chart(S, rawData) ==
  LET r == setupData(S, rawData)
  IN IF r.thrown THEN r.net
     ELSE render([r.net EXCEPT !.allData = r.data, !.svg = TRUE])

\* the elements of the scene stay bound to the objects of the payload before
updateData(S, newData) ==
  LET r == setupData(S, newData)
      keep == IF S.staleData = <<>> /\ (S.nodes # <<>> \/ S.edges # <<>>)
              THEN <<S.allData>> ELSE S.staleData
  IN IF r.thrown THEN r.net
     ELSE render([r.net EXCEPT !.allData = r.data, !.staleData = keep])

updateLayout(S, newLayout) == render([S EXCEPT !.layout = newLayout])
updateFilter(S, newFilter) == render([S EXCEPT !.filter = newFilter])
updateTime(S, newTime) == render([S EXCEPT !.time = newTime])

\* chart.updateZoom(newZoom), with t the transform the svg element has when the
\* transition starts; svg.transition() throws while svg is null
updateZoom(S, t, newZoom) ==
  IF ~S.svg THEN [net |-> Throw(S, "TypeError"), to |-> <<>>]
  ELSE [net |-> render(S),
        to |-> CASE newZoom = "zoom_in" -> <<scaleBy(t, ZoomIn)>>
                 [] newZoom = "zoom_out" -> <<scaleBy(t, ZoomOut)>>
                 [] newZoom = "zoom_init" -> <<zoomIdentity>>
                 [] OTHER -> <<>>]

\* ------------------------------------------------------------ search
Lower(c) == CASE c = "A" -> "a" [] c = "B" -> "b" [] c = "C" -> "c" [] OTHER -> c
toLowerCase(str) == [i \in DOMAIN str |-> Lower(str[i])]

\* new RegExp(pattern): an unclosed group is a SyntaxError
validRegExp(pattern) == \A i \in DOMAIN pattern : pattern[i] # "("
\* one pattern character against one character: '.' matches any, the rest itself
charMatch(pc, c) == pc = "." \/ pc = c
\* str.search(regex) >= 0
search(str, pattern) ==
  \E off \in 0..(Len(str) - Len(pattern)) :
     \A i \in DOMAIN pattern : charMatch(pattern[i], str[off + i])

\* an updateSearch whose else branch leaves the fill of the element as it is
updateSearchKeepFill(S, searchTerm) ==
  IF ~validRegExp(toLowerCase(searchTerm)) THEN Throw(S, "SyntaxError")
  ELSE IF ~S.drawn THEN Throw(S, "TypeError")
  ELSE
    LET store == boundData(S)
        hit(j) == /\ Len(searchTerm) > 0
                  /\ search(toLowerCase(getName(store.nodes[S.nodes[j].datum])),
                            toLowerCase(searchTerm))
        els == [j \in DOMAIN S.nodes |->
                  IF hit(j)
                  THEN [S.nodes[j] EXCEPT !.node_search = TRUE, !.fill = SearchColor]
                  ELSE [S.nodes[j] EXCEPT !.node_search = FALSE]]
        marked(i) == {j \in DOMAIN S.nodes : S.nodes[j].datum = i}
        nd == [i \in DOMAIN store.nodes |->
                 IF marked(i) = {} THEN store.nodes[i]
                 ELSE ("searched" :> hit(SetMax(marked(i)))) @@ store.nodes[i]]
        store2 == [store EXCEPT !.nodes = nd]
    IN IF S.staleData = <<>>
       THEN [S EXCEPT !.nodes = els, !.allData = store2]
       ELSE [S EXCEPT !.nodes = els, !.staleData = <<store2>>]

\* nodes.each over the elements of the last render; d is the element's datum
updateSearch(S, searchTerm) ==
  IF ~validRegExp(toLowerCase(searchTerm)) THEN Throw(S, "SyntaxError")
  ELSE IF ~S.drawn THEN Throw(S, "TypeError")
  ELSE
    LET store == boundData(S)
        hit(j) == /\ Len(searchTerm) > 0
                  /\ search(toLowerCase(getName(store.nodes[S.nodes[j].datum])),
                            toLowerCase(searchTerm))
        els == [j \in DOMAIN S.nodes |->
                  IF hit(j)
                  THEN [S.nodes[j] EXCEPT !.node_search = TRUE, !.fill = SearchColor]
                  ELSE [S.nodes[j] EXCEPT !.node_search = FALSE,
                                          !.fill = getColor(store.nodes[S.nodes[j].datum])]]
        marked(i) == {j \in DOMAIN S.nodes : S.nodes[j].datum = i}
        nd == [i \in DOMAIN store.nodes |->
                 IF marked(i) = {} THEN store.nodes[i]
                 ELSE ("searched" :> hit(SetMax(marked(i)))) @@ store.nodes[i]]
        store2 == [store EXCEPT !.nodes = nd]
    IN IF S.staleData = <<>>
       THEN [S EXCEPT !.nodes = els, !.allData = store2]
       ELSE [S EXCEPT !.nodes = els, !.staleData = <<store2>>]

\* ------------------------------------------------------------ highlight
\* linkedByIndex[a.uid + '_' + b.uid] || linkedByIndex[b.uid + '_' + a.uid]
neighboring(S, a, b) ==
  \/ (a.uid \o <<"_">> \o b.uid) \in S.linkedByIndex
  \/ (b.uid \o <<"_">> \o a.uid) \in S.linkedByIndex

\* n.searched of a node that no search has visited is undefined
searched(n) == Has(n, "searched") /\ n.searched

\* a hover that leaves the searched nodes out
highlightNodeLinkedOnly(S, j) ==
  LET store == boundData(S)
      d == store.nodes[S.nodes[j].datum]
  IN [S EXCEPT
        !.edges = [e \in DOMAIN S.edges |->
           [S.edges[e] EXCEPT !.edge_highlight =
              \/ store.nodes[store.links[S.edges[e].datum].source].uid = d.uid
              \/ store.nodes[store.links[S.edges[e].datum].target].uid = d.uid]],
        !.nodes = [k \in DOMAIN S.nodes |->
           [S.nodes[k] EXCEPT !.node_highlight =
              LET n == store.nodes[S.nodes[k].datum]
              IN d.uid = n.uid \/ neighboring(S, d, n)]]]

\* mouseover on the node element j, d its datum; showEdges is true: it is set at
\* construction and every later assignment sets it to true again
highlightNode(S, j) ==
  LET store == boundData(S)
      d == store.nodes[S.nodes[j].datum]
  IN [S EXCEPT
        !.edges = [e \in DOMAIN S.edges |->
           [S.edges[e] EXCEPT !.edge_highlight =
              \/ store.nodes[store.links[S.edges[e].datum].source].uid = d.uid
              \/ store.nodes[store.links[S.edges[e].datum].target].uid = d.uid]],
        !.nodes = [k \in DOMAIN S.nodes |->
           [S.nodes[k] EXCEPT !.node_highlight =
              LET n == store.nodes[S.nodes[k].datum]
              IN d.uid = n.uid \/ searched(n) \/ neighboring(S, d, n)]]]

\* mouseout
unhighlightNode(S) ==
  [S EXCEPT
     !.edges = [e \in DOMAIN S.edges |-> [S.edges[e] EXCEPT !.edge_highlight = FALSE]],
     !.nodes = [k \in DOMAIN S.nodes |-> [S.nodes[k] EXCEPT !.node_highlight = FALSE]]]

\* ------------------------------------------------------------ slider state
VARIABLES
  timeSteps,          \* config.animation.steps
  cfg,                \* config.widgets.aggregation: past, future, aggregation
  currentValue,       \* the stored position, in ticks
  pastDelta, futureDelta, aggregationDelta,
  aggregationShow, lookoutShow,
  moving,
  timer,              \* "null", "running" or "stopped"
  playText,           \* the text of the play button
  handle, pastHandle, futureHandle, aggregationHandle,   \* the cx attributes
  delivered,          \* the payload request has resolved and display has run
  renders             \* the number of render() calls of the last operation

\* run(config), main.js: the configuration object, the position in run, and the
\* values the constructors have read from the configuration
VARIABLES
  config,             \* the object config.json resolved to; <<>> when it is not modelled
  phase,              \* "run", "network", "widgets", "slider", "aborted", or "built"
  built               \* the values read from config so far

\* the zoom transform of the svg element and the pointer
VARIABLES
  transform,          \* svg.__zoom: the scale k as a fraction, and the scene point
                      \* shown at the centre of the viewport
  zoomTo,             \* <<t>> while a zoom transition towards t is running, else <<>>
  sceneTransform,     \* the transform attribute of the g elements: <<t>>, <<>> if unset
  dragging,           \* the index of the node being dragged, 0 when none is
  fx,                 \* d.fx of that node's datum: <<x>> while pinned, <<>> when null
  inputs              \* the number of pointer and button inputs so far

viewVars == <<transform, zoomTo, sceneTransform, dragging, fx, inputs>>

sliderVars == <<timeSteps, cfg, currentValue, pastDelta, futureDelta, aggregationDelta,
                aggregationShow, lookoutShow, moving, timer, playText, handle,
                pastHandle, futureHandle, aggregationHandle, config, phase, built>>

vars == <<netVars, sliderVars, viewVars, delivered, renders>>

\* the closure state of sliderMenu(container, config, network) as one value
Sl ==
  [currentValue |-> currentValue, pastDelta |-> pastDelta, futureDelta |-> futureDelta,
   aggregationDelta |-> aggregationDelta, aggregationShow |-> aggregationShow,
   lookoutShow |-> lookoutShow, moving |-> moving, timer |-> timer,
   playText |-> playText, handle |-> handle, pastHandle |-> pastHandle,
   futureHandle |-> futureHandle, aggregationHandle |-> aggregationHandle]

SetSl(L) ==
  /\ currentValue' = L.currentValue
  /\ pastDelta' = L.pastDelta
  /\ futureDelta' = L.futureDelta
  /\ aggregationDelta' = L.aggregationDelta
  /\ aggregationShow' = L.aggregationShow
  /\ lookoutShow' = L.lookoutShow
  /\ moving' = L.moving
  /\ timer' = L.timer
  /\ playText' = L.playText
  /\ handle' = L.handle
  /\ pastHandle' = L.pastHandle
  /\ futureHandle' = L.futureHandle
  /\ aggregationHandle' = L.aggregationHandle
  /\ UNCHANGED <<timeSteps, cfg, config, phase, built, transform, zoomTo, sceneTransform, dragging, fx>>

\* ------------------------------------------------------------ slider update
\* the cx attributes update(value) writes; value is x.invert(.), so x(value) = value
pastCx(N, value, pd) ==
  IF xScale(N, value) > xDelta(N, pd) THEN xScale(N, value) - xDelta(N, pd) ELSE 0
aggregationCx(N, value, ad) ==
  IF xScale(N, value) + xDelta(N, ad) < targetValue(N)
  THEN xScale(N, value) + xDelta(N, ad) ELSE targetValue(N)
futureCx(N, value, ad, fd) ==
  IF xScale(N, value) + xDelta(N, ad) + xDelta(N, fd) < targetValue(N)
  THEN xScale(N, value) + xDelta(N, ad) + xDelta(N, fd) ELSE targetValue(N)

\* the newTime object of update(value)
newTime(N, value, pd, ad, fd) ==
  [past |-> parseInt(formatInt(xInvert(N, pastCx(N, value, pd)))),
   time |-> parseInt(formatInt(value)),
   aggregated |-> parseInt(formatInt(value + ad * Unit)),
   future |-> parseInt(formatInt(xInvert(N, futureCx(N, value, ad, fd))))]

\* update(value) on the slider's side: the four handles
update(L, N, value) ==
  [L EXCEPT !.handle = xScale(N, value),
            !.pastHandle = pastCx(N, value, L.pastDelta),
            !.aggregationHandle = aggregationCx(N, value, L.aggregationDelta),
            !.futureHandle = futureCx(N, value, L.aggregationDelta, L.futureDelta)]

\* and the window it hands to network.updateTime
pushed(L, N, value) ==
  newTime(N, value, L.pastDelta, L.aggregationDelta, L.futureDelta)

\* ------------------------------------------------------------ slider handlers
\* Each handler gives [sl, push]: the slider state it leaves when network.updateTime
\* returns, and the windows it pushed (none or one).  When updateTime throws the
\* handler ends inside update(value): `thrown` is the slider state at that point.

\* handle drag, "start drag": currentValue = d3.event.x; update(x.invert(currentValue))
handleDrag(L, N, px) ==
  LET L1 == [L EXCEPT !.currentValue = px]
      L2 == update(L1, N, xInvert(N, px))
  IN [sl |-> L2, thrown |-> L2, push |-> <<pushed(L1, N, xInvert(N, px))>>]

\* a step that starts over past the end and leaves the timer running
stepAround(L, N) ==
  LET value == xInvert(N, L.currentValue)
      L1 == update(L, N, value)
      next == L.currentValue + targetValue(N) \div N
      L2 == IF next + xDelta(N, L.aggregationDelta) > targetValue(N)
            THEN [L1 EXCEPT !.currentValue = 0]
            ELSE [L1 EXCEPT !.currentValue = next]
  IN [sl |-> L2, thrown |-> L1, push |-> <<pushed(L, N, value)>>]

\* step(): update, then advance by targetValue / timeSteps, then stop past the end
step(L, N) ==
  LET value == xInvert(N, L.currentValue)
      L1 == update(L, N, value)
      next == L.currentValue + targetValue(N) \div N
      L2 == IF next + xDelta(N, L.aggregationDelta) > targetValue(N)
            THEN [L1 EXCEPT !.moving = FALSE, !.currentValue = 0,
                            !.timer = "stopped", !.playText = "Play"]
            ELSE [L1 EXCEPT !.currentValue = next]
  IN [sl |-> L2, thrown |-> L1, push |-> <<pushed(L, N, value)>>]

\* a pause that rewinds
playClickRewind(L) ==
  IF L.playText = "Pause"
  THEN [L EXCEPT !.moving = FALSE, !.timer = "stopped", !.playText = "Play",
                 !.currentValue = 0]
  ELSE [L EXCEPT !.moving = TRUE, !.timer = "running", !.playText = "Pause"]

\* a pause that leaves the interval timer running
playClickNoStop(L) ==
  IF L.playText = "Pause"
  THEN [L EXCEPT !.moving = FALSE, !.playText = "Play"]
  ELSE [L EXCEPT !.moving = TRUE, !.timer = "running", !.playText = "Pause"]

\* playBtn click
playClick(L) ==
  IF L.playText = "Pause"
  THEN [L EXCEPT !.moving = FALSE, !.timer = "stopped", !.playText = "Play"]
  ELSE [L EXCEPT !.moving = TRUE, !.timer = "running", !.playText = "Pause"]

\* a toggle that keeps the aggregation width when it is switched off
aggregationClickKeepsDelta(L, N, c) ==
  LET L1 == IF L.aggregationShow = FALSE
            THEN [L EXCEPT !.aggregationShow = TRUE, !.aggregationDelta = c.aggregation]
            ELSE [L EXCEPT !.aggregationShow = FALSE]
      value == xInvert(N, L.currentValue)
      L2 == update(L1, N, value)
  IN [sl |-> L2, thrown |-> L2, push |-> <<pushed(L1, N, value)>>]

\* aggregationBtn click
aggregationClick(L, N, c) ==
  LET L1 == IF L.aggregationShow = FALSE
            THEN [L EXCEPT !.aggregationShow = TRUE, !.aggregationDelta = c.aggregation]
            ELSE [L EXCEPT !.aggregationShow = FALSE, !.aggregationDelta = 0]
      value == xInvert(N, L.currentValue)
      L2 == update(L1, N, value)
  IN [sl |-> L2, thrown |-> L2, push |-> <<pushed(L1, N, value)>>]

\* lookoutBtn click
lookoutClick(L, N, c) ==
  LET L1 == IF L.lookoutShow = FALSE
            THEN [L EXCEPT !.lookoutShow = TRUE, !.pastDelta = c.past,
                           !.futureDelta = c.future]
            ELSE [L EXCEPT !.lookoutShow = FALSE, !.pastDelta = 0, !.futureDelta = 0]
      value == xInvert(N, L.currentValue)
      L2 == update(L1, N, value)
  IN [sl |-> L2, thrown |-> L2, push |-> <<pushed(L1, N, value)>>]

\* parseInt(formatInt(value)) - parseInt(formatInt(x.invert(cx)))
deltaTo(N, value, cx) == parseInt(formatInt(value)) - parseInt(formatInt(xInvert(N, cx)))
abs(v) == IF v < 0 THEN -v ELSE v

\* a past drag that takes any position
pastUpdateAnywhere(L, N, value) ==
  LET L1 == [L EXCEPT !.pastDelta = abs(deltaTo(N, value, L.handle))]
      v == xInvert(N, L.currentValue)
  IN [sl |-> update(L1, N, v), thrown |-> update(L1, N, v), push |-> <<pushed(L1, N, v)>>]

\* the three auxiliary drags; value is x.invert(d3.event.x)
pastUpdate(L, N, value) ==
  LET delta == deltaTo(N, value, L.handle)
  IN IF delta <= 0 /\ xScale(N, value) < L.handle
     THEN LET L1 == [L EXCEPT !.pastDelta = abs(delta)]
              v == xInvert(N, L.currentValue)
          IN [sl |-> update(L1, N, v), thrown |-> update(L1, N, v),
              push |-> <<pushed(L1, N, v)>>]
     ELSE [sl |-> L, thrown |-> L, push |-> <<>>]

futureUpdate(L, N, value) ==
  LET delta == deltaTo(N, value, L.aggregationHandle)
  IN IF delta >= 0 /\ xScale(N, value) > L.handle
     THEN LET L1 == [L EXCEPT !.futureDelta = abs(delta)]
              v == xInvert(N, L.currentValue)
          IN [sl |-> update(L1, N, v), thrown |-> update(L1, N, v),
              push |-> <<pushed(L1, N, v)>>]
     ELSE [sl |-> L, thrown |-> L, push |-> <<>>]

aggregationUpdate(L, N, value) ==
  LET delta == deltaTo(N, value, L.handle)
  IN IF delta >= 0 /\ xScale(N, value) > L.handle
     THEN LET L1 == [L EXCEPT !.aggregationDelta = abs(delta)]
              v == xInvert(N, L.currentValue)
          IN [sl |-> update(L1, N, v), thrown |-> update(L1, N, v),
              push |-> <<pushed(L1, N, v)>>]
     ELSE [sl |-> L, thrown |-> L, push |-> <<>>]

\* ------------------------------------------------------------ inputs
PayloadNames == {"scenario", "dangling", "plain"}
Payload(name) ==
  CASE name = "scenario" -> PayScenario
    [] name = "dangling" -> PayDangling
    [] name = "repeated" -> PayRepeated
    [] OTHER -> PayPlain

SearchTerms == {<<>>, <<"a">>, <<"B">>, <<".">>, <<"(">>}

\* config.animation.steps: a short timeline and one of a thousand steps
StepChoices == {MaxSteps, Thousand}
\* pointer positions of a drag, in ticks: one off the track on either side, the first
\* tick, and the whole steps 0, 1, 2 and the last two
Positions(N) ==
  {-1, 1, targetValue(N) + 1}
    \cup {k * Unit : k \in {0, 1, 2, N - 1, N}}
\* where the slider's own state machine drops the primary handle: on a whole step or
\* off the track (WindowSpec drops it between steps)
Stops(N) == Positions(N) \ {1}
\* the values x.invert(d3.event.x) they give to an auxiliary drag
Values(N) == {xInvert(N, px) : px \in Positions(N)}
\* config.widgets.aggregation
DefaultCfg == [past |-> 1, future |-> 1, aggregation |-> 1]
\* the deltas {past, aggregation, future} of the windows handed to updateTime: a
\* lookout of one step, or a past and an aggregation of one step
DeltaChoices == {<<1, 0, 1>>, <<1, 1, 0>>}
\* the windows update(value) computes at the steps 0, 1, 2 and at the last step
Windows ==
  {newTime(MaxSteps, xInvert(MaxSteps, px), d[1], d[2], d[3]) :
     px \in {0, Unit, 2 * Unit, targetValue(MaxSteps)}, d \in DeltaChoices}

ZeroTime == [past |-> 0, time |-> 0, aggregated |-> 0, future |-> 0]

\* ------------------------------------------------------------ construction
\* network(config) and sliderMenu(container, config, network)
NetInit ==
  /\ filter = "all"
  /\ time = ZeroTime
  /\ svg = FALSE
  /\ allData = <<>>
  /\ staleData = <<>>
  /\ linkedByIndex = {}
  /\ countExtent = <<>>
  /\ nodes = <<>>
  /\ edges = <<>>
  /\ drawn = FALSE
  /\ simNodes = <<>>
  /\ forces = NoForces
  /\ alpha = AlphaStart
  /\ alphaTarget = 0
  /\ sim = "stopped"
  /\ transform = zoomIdentity
  /\ zoomTo = <<>>
  /\ sceneTransform = <<>>
  /\ dragging = 0
  /\ fx = <<>>
  /\ inputs = 0
  /\ lastOp = <<"network">>
  /\ err = "none"
  /\ delivered = FALSE
  /\ renders = 0
  /\ config = <<>>
  /\ phase = "built"
  /\ built = <<>>

SliderInit ==
  /\ currentValue = 0
  /\ pastDelta = 0
  /\ futureDelta = 0
  /\ aggregationDelta = 0
  /\ aggregationShow = FALSE
  /\ lookoutShow = FALSE
  /\ moving = FALSE
  /\ timer = "null"
  /\ playText = "Play"
  /\ handle = 0
  /\ pastHandle = 0
  /\ futureHandle = 0
  /\ aggregationHandle = 0

Init ==
  /\ temporal \in BOOLEAN
  /\ layout \in Layouts
  /\ timeSteps = MaxSteps
  /\ cfg = DefaultCfg
  /\ NetInit
  /\ SliderInit

\* ------------------------------------------------------------ renderer actions
\* an operation of the chart object alone: the slider is left as it is
NetOp(S, op, n) ==
  \E R \in {S} :
    /\ SetNet(R, op)
    /\ renders' = n
    /\ UNCHANGED <<sliderVars, viewVars>>

\* d3.json('data/network.json').then(display)
Mount ==
  \E p \in PayloadNames :
    /\ ~delivered
    /\ delivered' = TRUE
    /\ NetOp(chart(Net, Payload(p)), <<"chart", p>>,
             IF setupData(Net, Payload(p)).thrown THEN 0 ELSE 1)

\* chart.updateData is called by the embedding page, on the chart display has mounted
UpdateData ==
  \E p \in PayloadNames :
    /\ delivered
    /\ NetOp(updateData(Net, Payload(p)), <<"updateData", p>>,
             IF setupData(Net, Payload(p)).thrown THEN 0 ELSE 1)
    /\ UNCHANGED delivered

UpdateLayout ==
  \E l \in Layouts :
    /\ NetOp(updateLayout(Net, l), <<"updateLayout">>, 1)
    /\ UNCHANGED delivered

UpdateFilter ==
  \E g \in Groups :
    /\ NetOp(updateFilter(Net, g), <<"updateFilter">>, 1)
    /\ UNCHANGED delivered

\* the slider, the only caller, exists only when config.temporal is true
UpdateTime ==
  \E w \in Windows :
    /\ temporal
    /\ NetOp(updateTime(Net, w), <<"updateTime">>, 1)
    /\ UNCHANGED delivered

Next ==
  \/ Mount
  \/ UpdateData
  \/ UpdateLayout
  \/ UpdateFilter
  \/ UpdateTime

Spec == Init /\ [][Next]_vars

\* ------------------------------------------------------------ slider actions
\* The slider exists when config.temporal is true.  A handler that calls update
\* calls network.updateTime, which renders; when that throws the handler ends there.
SliderStep(res, op, n) ==
  \E r \in {res} :
    /\ inputs' = n
    /\ IF r.push = <<>>
       THEN /\ SetSl(r.sl)
            /\ lastOp' = op
            /\ err' = "none"
            /\ renders' = 0
            /\ UNCHANGED <<temporal, layout, filter, time, svg, allData, staleData,
                           linkedByIndex, countExtent, nodes, edges, drawn, simNodes,
                           forces, alpha, alphaTarget, sim, delivered>>
       ELSE \E S \in {updateTime(Net, r.push[1])} :
              /\ SetNet(S, op)
              /\ SetSl(IF S.err = "none" THEN r.sl ELSE r.thrown)
              /\ renders' = 1
              /\ UNCHANGED delivered

SliderOp(res, op) == SliderStep(res, op, inputs)

SliderInitAll ==
  /\ temporal = TRUE
  /\ layout = "force"
  /\ timeSteps = MaxSteps
  /\ cfg = DefaultCfg
  /\ NetInit
  /\ SliderInit

\* the payload arrives: the scenario without changes
SliderMount ==
  /\ ~delivered
  /\ delivered' = TRUE
  /\ NetOp(chart(Net, PayTimeline), <<"chart", "timeline">>, 1)

HandleDrag ==
  \E px \in Stops(timeSteps) :
    SliderOp(handleDrag(Sl, timeSteps, px), <<"handleDrag">>)

PlayClick ==
  SliderOp([sl |-> playClick(Sl), thrown |-> Sl, push |-> <<>>], <<"playClick">>)

\* the interval timer fires
Tick ==
  /\ timer = "running"
  /\ SliderOp(step(Sl, timeSteps), <<"step">>)

AggregationClick ==
  SliderOp(aggregationClick(Sl, timeSteps, cfg), <<"aggregationClick">>)

LookoutClick ==
  SliderOp(lookoutClick(Sl, timeSteps, cfg), <<"lookoutClick">>)

\* the auxiliary handles are in the document while their toggle is on
PastDrag ==
  \E value \in Values(timeSteps) :
    /\ lookoutShow
    /\ SliderOp(pastUpdate(Sl, timeSteps, value), <<"pastUpdate", value>>)

FutureDrag ==
  \E value \in Values(timeSteps) :
    /\ lookoutShow
    /\ SliderOp(futureUpdate(Sl, timeSteps, value), <<"futureUpdate", value>>)

AggregationDrag ==
  \E value \in Values(timeSteps) :
    /\ aggregationShow
    /\ SliderOp(aggregationUpdate(Sl, timeSteps, value), <<"aggregationUpdate", value>>)

SliderNext ==
  \/ SliderMount
  \/ HandleDrag
  \/ PlayClick
  \/ Tick
  \/ AggregationClick
  \/ LookoutClick
  \/ PastDrag
  \/ FutureDrag
  \/ AggregationDrag

SliderSpec == SliderInitAll /\ [][SliderNext]_vars

\* ------------------------------------------------------------ play
\* The animation on a short and on a long timeline: the payload arrives, the timer
\* fires while it runs, and the user clicks Play or Pause, toggles the aggregation
\* and drops the primary handle, at most MaxClicks times in all.
PlayInit ==
  \E N \in StepChoices :
    /\ temporal = TRUE
    /\ layout = "force"
    /\ timeSteps = N
    /\ cfg = DefaultCfg
    /\ NetInit
    /\ SliderInit

PlayButton ==
  /\ inputs < MaxClicks
  /\ SliderStep([sl |-> playClick(Sl), thrown |-> Sl, push |-> <<>>], <<"playClick">>,
                inputs + 1)

PlayAggregation ==
  /\ inputs < MaxClicks
  /\ SliderStep(aggregationClick(Sl, timeSteps, cfg), <<"aggregationClick">>, inputs + 1)

\* the handle is dropped at the start, two steps before the end, or at the end
PlayDrag ==
  \E k \in {0, timeSteps - 2, timeSteps} :
    /\ inputs < MaxClicks
    /\ SliderStep(handleDrag(Sl, timeSteps, k * Unit), <<"handleDrag">>, inputs + 1)

PlayNext ==
  \/ SliderMount
  \/ Tick
  \/ PlayButton
  \/ PlayAggregation
  \/ PlayDrag

PlaySpec == PlayInit /\ [][PlayNext]_vars

\* The same on the short timeline, with the scheduling stated: the interval timer
\* keeps firing while it runs, and the request for the payload resolves.
PlayShortInit == PlayInit /\ timeSteps = MaxSteps

\* ENABLED <<Tick>>_vars, written out: on the mounted chart a tick of the running
\* timer moves the stored position or stops the timer
TickEnabled == timer = "running" /\ delivered

\* weak fairness of Tick, and the payload arrives
PlayFairSpec ==
  /\ PlayShortInit
  /\ [][PlayNext]_vars
  /\ <>delivered
  /\ ([]<>(~TickEnabled) \/ []<><<Tick>>_vars)

\* ------------------------------------------------------------ update(value)
\* update(value) as a function of the timeline, the three deltas and the position.
\* The deltas a sequence of auxiliary drags has left, with both toggles on and the
\* handle dragged back to 0: none, one step, and the two longest of the timeline.
DeltaSet(N) == {0, 1, N - 2, N - 1}

WindowInit ==
  \E N \in StepChoices :
  \E pd \in DeltaSet(N), ad \in DeltaSet(N), fd \in DeltaSet(N) :
    /\ temporal = TRUE
    /\ layout = "force"
    /\ timeSteps = N
    /\ cfg = DefaultCfg
    /\ NetInit
    /\ currentValue = 0
    /\ pastDelta = pd
    /\ aggregationDelta = ad
    /\ futureDelta = fd
    /\ aggregationShow = TRUE
    /\ lookoutShow = TRUE
    /\ moving = FALSE
    /\ timer = "null"
    /\ playText = "Play"
    /\ handle = 0
    /\ pastHandle = pastCx(N, 0, pd)
    /\ aggregationHandle = aggregationCx(N, 0, ad)
    /\ futureHandle = futureCx(N, 0, ad, fd)

\* the payload of the scenario arrives
WindowMount ==
  /\ ~delivered
  /\ delivered' = TRUE
  /\ NetOp(chart(Net, PayScenario), <<"chart", "scenario">>, 1)

\* the primary handle is dragged: update(x.invert(d3.event.x))
WindowDrag ==
  \E px \in Positions(timeSteps) :
    SliderOp(handleDrag(Sl, timeSteps, px), <<"handleDrag">>)

WindowNext ==
  \/ WindowMount
  \/ WindowDrag

WindowSpec == WindowInit /\ [][WindowNext]_vars

\* ------------------------------------------------------------ search box
SearchInit ==
  /\ temporal \in BOOLEAN
  /\ layout = "force"
  /\ timeSteps = MaxSteps
  /\ cfg = DefaultCfg
  /\ NetInit
  /\ SliderInit

\* the keyup handler of the search input: chart.updateSearch(this.value)
UpdateSearch ==
  \E q \in SearchTerms :
    /\ NetOp(updateSearch(Net, q), <<"updateSearch", q>>, 0)
    /\ UNCHANGED delivered

SearchNext ==
  \/ Mount
  \/ UpdateFilter
  \/ UpdateTime
  \/ UpdateSearch

SearchSpec == SearchInit /\ [][SearchNext]_vars

\* ------------------------------------------------------------ hover
\* The pointer over the node elements, with searches, filter changes and reloads.
HoverInit ==
  /\ temporal = FALSE
  /\ layout = "force"
  /\ timeSteps = MaxSteps
  /\ cfg = DefaultCfg
  /\ NetInit
  /\ SliderInit

\* the pointer enters the node element j
MouseOver ==
  \E j \in DOMAIN nodes :
    /\ NetOp(highlightNode(Net, j), <<"highlightNode", j>>, 0)
    /\ UNCHANGED delivered

\* the pointer leaves the node element it is over
MouseOut ==
  /\ lastOp[1] = "highlightNode"
  /\ NetOp(unhighlightNode(Net), <<"unhighlightNode">>, 0)
  /\ UNCHANGED delivered

HoverNext ==
  \/ Mount
  \/ UpdateData
  \/ UpdateFilter
  \/ UpdateSearch
  \/ MouseOver
  \/ MouseOut

HoverSpec == HoverInit /\ [][HoverNext]_vars

\* ------------------------------------------------------------ links
\* The renderer on payloads whose links repeat a pair of nodes or lack a timestamp:
\* the payload arrives or is replaced, and the filter, the window and the layout
\* change.
LinkPayloads == {"repeated", "scenario"}

MountLinks ==
  \E p \in LinkPayloads :
    /\ ~delivered
    /\ delivered' = TRUE
    /\ NetOp(chart(Net, Payload(p)), <<"chart", p>>, 1)

ReloadLinks ==
  \E p \in LinkPayloads :
    /\ delivered
    /\ NetOp(updateData(Net, Payload(p)), <<"updateData", p>>, 1)
    /\ UNCHANGED delivered

LinkNext ==
  \/ MountLinks
  \/ ReloadLinks
  \/ UpdateLayout
  \/ UpdateFilter
  \/ UpdateTime

LinkSpec == Init /\ [][LinkNext]_vars

\* ------------------------------------------------------------ zoom buttons
\* The zoom buttons of the widget bar, the wheel and the pointer on the svg element.
\* At most MaxInputs inputs are followed.
ZoomLevels == {"zoom_in", "zoom_out", "zoom_init"}
\* a turn of the wheel doubles or halves the scale
WheelFactors == {<<2, 1>>, <<1, 2>>}
\* the scene points a pan brings to the centre of the viewport
PanCentres == {width \div 2, width \div 4}

\* a new transition or gesture interrupts the running transition, at its start or
\* at its end
interrupted == {transform} \cup (IF zoomTo = <<>> THEN {} ELSE {zoomTo[1]})
\* what the g elements show then: the transition calls zoomed from its first tick on
shownAt(t) ==
  (IF t = transform THEN {sceneTransform} ELSE {})
    \cup (IF zoomTo = <<>> THEN {} ELSE {zoomed(t)})

ZoomInit ==
  /\ temporal = FALSE
  /\ layout = "force"
  /\ timeSteps = MaxSteps
  /\ cfg = DefaultCfg
  /\ NetInit
  /\ SliderInit

ZoomMount ==
  /\ ~delivered
  /\ delivered' = TRUE
  /\ NetOp(chart(Net, PayTimeline), <<"chart", "timeline">>, 1)

\* a click on '+', '-' or 'Reset'
UpdateZoom ==
  \E z \in ZoomLevels, t \in interrupted :
    \E R \in {updateZoom(Net, t, z)}, shown \in shownAt(t) :
      /\ inputs < MaxInputs
      /\ inputs' = inputs + 1
      /\ SetNet(R.net, <<"updateZoom", z>>)
      /\ IF svg THEN transform' = t /\ zoomTo' = R.to /\ sceneTransform' = shown
                ELSE UNCHANGED <<transform, zoomTo, sceneTransform>>
      /\ renders' = IF svg THEN 1 ELSE 0
      /\ UNCHANGED <<sliderVars, dragging, fx, delivered>>

\* the transition reaches its end: the zoom handler sets the last transform
TransitionEnd ==
  /\ zoomTo # <<>>
  /\ transform' = zoomTo[1]
  /\ zoomTo' = <<>>
  /\ sceneTransform' = zoomed(zoomTo[1])
  /\ UNCHANGED <<netVars, sliderVars, dragging, fx, inputs, delivered, renders>>

\* the zoom behaviour chart() attaches to the svg element: the wheel, with or
\* without the shift key; a turn that cannot change the scale is ignored
Wheel ==
  \E f \in WheelFactors, t \in interrupted, shiftKey \in BOOLEAN :
    \E shown \in shownAt(t) :
      /\ svg
      /\ scaleBy(t, f) # t
      /\ inputs < MaxInputs
      /\ inputs' = inputs + 1
      /\ transform' = scaleBy(t, f)
      /\ zoomTo' = <<>>
      /\ sceneTransform' = zoomedWithKey(shown, shiftKey, scaleBy(t, f))
      /\ lastOp' = <<"wheel", shiftKey>>
      /\ err' = "none"
      /\ renders' = 0
      /\ UNCHANGED <<temporal, layout, filter, time, svg, allData, staleData,
                     linkedByIndex, countExtent, nodes, edges, drawn, simNodes, forces,
                     alpha, alphaTarget, sim, sliderVars, dragging, fx, delivered>>

\* and the pointer dragging the background
Pan ==
  \E c \in PanCentres, t \in interrupted, shiftKey \in BOOLEAN :
    \E shown \in shownAt(t) :
      /\ svg
      /\ inputs < MaxInputs
      /\ inputs' = inputs + 1
      /\ transform' = [t EXCEPT !.cx = c]
      /\ zoomTo' = <<>>
      /\ sceneTransform' = zoomedWithKey(shown, shiftKey, [t EXCEPT !.cx = c])
      /\ lastOp' = <<"pan", shiftKey>>
      /\ err' = "none"
      /\ renders' = 0
      /\ UNCHANGED <<temporal, layout, filter, time, svg, allData, staleData,
                     linkedByIndex, countExtent, nodes, edges, drawn, simNodes, forces,
                     alpha, alphaTarget, sim, sliderVars, dragging, fx, delivered>>

ZoomNext ==
  \/ ZoomMount
  \/ UpdateZoom
  \/ TransitionEnd
  \/ Wheel
  \/ Pan

ZoomSpec == ZoomInit /\ [][ZoomNext]_vars

\* ------------------------------------------------------------ node drag
\* one pointer: d3.event.active is 0 in the start and in the end handler
\* dragstarted: simulation.alphaTarget(0.2).restart()
dragstarted(S) == [S EXCEPT !.alphaTarget = DragTarget, !.sim = "running"]

\* dragended: simulation.alphaTarget(0.2)
dragended(S) == [S EXCEPT !.alphaTarget = DragTarget]

\* where the pointer and the nodes can be
PointerXs == {width \div 4, width \div 2}

DragInit ==
  /\ temporal \in BOOLEAN
  /\ layout \in Layouts
  /\ timeSteps = MaxSteps
  /\ cfg = DefaultCfg
  /\ NetInit
  /\ SliderInit

\* the pointer goes down on a rendered node: d.fx = d.x
DragStart ==
  \E i \in DOMAIN nodes, x \in PointerXs :
    /\ dragging = 0
    /\ inputs < MaxClicks
    /\ inputs' = inputs + 1
    /\ SetNet(dragstarted(Net), <<"dragstarted", x>>)
    /\ dragging' = i
    /\ fx' = <<x>>
    /\ renders' = 0
    /\ UNCHANGED <<sliderVars, transform, zoomTo, sceneTransform, delivered>>

\* the pointer moves: d.fx = d3.event.x
Dragged ==
  \E x \in PointerXs :
    /\ dragging # 0
    /\ fx' = <<x>>
    /\ lastOp' = <<"dragged", x>>
    /\ err' = "none"
    /\ renders' = 0
    /\ UNCHANGED <<temporal, layout, filter, time, svg, allData, staleData, linkedByIndex,
                   countExtent, nodes, edges, drawn, simNodes, forces, alpha,
                   alphaTarget, sim, sliderVars, transform, zoomTo, sceneTransform, dragging, inputs,
                   delivered>>

\* the pointer goes up: d.fx = null
DragEnd ==
  /\ dragging # 0
  /\ SetNet(dragended(Net), <<"dragended">>)
  /\ dragging' = 0
  /\ fx' = <<>>
  /\ renders' = 0
  /\ UNCHANGED <<sliderVars, transform, zoomTo, sceneTransform, inputs, delivered>>

\* the timer of the simulation fires
SimTick ==
  /\ sim = "running"
  /\ alpha' = simStep(Net).alpha
  /\ sim' = simStep(Net).sim
  /\ UNCHANGED <<temporal, layout, filter, time, svg, allData, staleData, linkedByIndex,
                 countExtent, nodes, edges, drawn, simNodes, forces, alphaTarget,
                 lastOp, err, sliderVars, viewVars, delivered, renders>>

\* a layout click whose render lets go of the pinned node
LayoutClickUnpins ==
  \E l \in Layouts :
    /\ inputs < MaxClicks
    /\ inputs' = inputs + 1
    /\ SetNet(updateLayout(Net, l), <<"updateLayout">>)
    /\ renders' = 1
    /\ fx' = <<>>
    /\ UNCHANGED <<sliderVars, transform, zoomTo, sceneTransform, dragging, delivered>>

\* a click on 'Force' or 'Euclidean': network.updateLayout renders again
LayoutClick ==
  \E l \in Layouts :
    /\ inputs < MaxClicks
    /\ inputs' = inputs + 1
    /\ SetNet(updateLayout(Net, l), <<"updateLayout">>)
    /\ renders' = 1
    /\ UNCHANGED <<sliderVars, transform, zoomTo, sceneTransform, dragging, fx,
                   delivered>>

\* the group drop down changes: network.updateFilter renders again
FilterChange ==
  \E g \in Groups :
    /\ inputs < MaxClicks
    /\ inputs' = inputs + 1
    /\ SetNet(updateFilter(Net, g), <<"updateFilter">>)
    /\ renders' = 1
    /\ UNCHANGED <<sliderVars, transform, zoomTo, sceneTransform, dragging, fx,
                   delivered>>

\* the slider pushes a window: network.updateTime renders again
TimeChange ==
  \E w \in Windows :
    /\ temporal
    /\ inputs < MaxClicks
    /\ inputs' = inputs + 1
    /\ SetNet(updateTime(Net, w), <<"updateTime">>)
    /\ renders' = 1
    /\ UNCHANGED <<sliderVars, transform, zoomTo, sceneTransform, dragging, fx,
                   delivered>>

DragNext ==
  \/ Mount
  \/ DragStart
  \/ Dragged
  \/ DragEnd
  \/ SimTick
  \/ LayoutClick
  \/ FilterChange
  \/ TimeChange

\* d3's timer keeps calling the simulation's step while the simulation runs
DragSpec == DragInit /\ [][DragNext]_vars /\ WF_vars(SimTick)

\* ------------------------------------------------------------ the scene, observed
\* the uids of the rendered nodes and of the rendered edges
nodeUids(S) == {boundData(S).nodes[S.nodes[j].datum].uid : j \in DOMAIN S.nodes}
edgeUids(S) == {boundData(S).links[S.edges[j].datum].uid : j \in DOMAIN S.edges}
\* the attributes of the rendered nodes: the datum with the radius and fill drawn
nodeAttributes(S) ==
  {<<boundData(S).nodes[S.nodes[j].datum], S.nodes[j].r, S.nodes[j].fill>> :
     j \in DOMAIN S.nodes}
\* the rendered edges with their active flag
edgeFlags(S) ==
  {<<boundData(S).links[S.edges[j].datum].uid, S.edges[j].edge_active>> :
     j \in DOMAIN S.edges}
\* the uids of the two ends of a rendered edge
endUids(S, j) ==
  LET d == boundData(S)
  IN {d.nodes[d.links[S.edges[j].datum].source].uid,
      d.nodes[d.links[S.edges[j].datum].target].uid}

\* ------------------------------------------------------------ C1
\* the links of a payload both of whose ids are uids of its nodes
kept(data) == {i \in DOMAIN data.links : ~isDangling(data.nodes, data.links[i])}

\* C1: every load (mount or updateData), of every payload, completes without an
\* error; the links it keeps are the links of the payload whose two ids are uids of
\* payload nodes, and each of them has both ends resolved to a node of the payload.
C1_LoadDropsDangling ==
  \A p \in PayloadNames :
    (lastOp = <<"chart", p>> \/ lastOp = <<"updateData", p>>) =>
      /\ err = "none"
      /\ Has(allData, "links")
      /\ Len(allData.links) = Cardinality(kept(Payload(p)))
      /\ \A i \in DOMAIN allData.links :
            /\ allData.links[i].source \in DOMAIN allData.nodes
            /\ allData.links[i].target \in DOMAIN allData.nodes

\* ------------------------------------------------------------ C2
SliderOps == {"handleDrag", "step", "aggregationClick", "lookoutClick", "pastUpdate",
              "futureUpdate", "aggregationUpdate"}

\* C2: every window a slider operation pushes through updateTime, and the renderer
\* renders, is ordered: past <= time <= aggregated <= future (the deltas of the
\* slider are never negative).
C2_WindowOrdered ==
  (lastOp[1] \in SliderOps /\ renders = 1 /\ err = "none") =>
    /\ time.past <= time.time
    /\ time.time <= time.aggregated
    /\ time.aggregated <= time.future

\* ------------------------------------------------------------ C3
\* C3: update(t) at a whole step t of the track pushes time = t, past = max(0, t -
\* pastDelta), aggregated = min(stepCount, t + aggregationDelta) and future =
\* min(stepCount, t + aggregationDelta + futureDelta), and renders exactly once.
C3_UpdateWindow ==
  (lastOp = <<"handleDrag">> /\ delivered
     /\ xInvert(timeSteps, currentValue) % Unit = 0) =>
    LET t == xInvert(timeSteps, currentValue) \div Unit
    IN /\ time.time = t
       /\ time.past = Max(0, t - pastDelta)
       /\ time.aggregated = Min(timeSteps, t + aggregationDelta)
       /\ time.future = Min(timeSteps, t + aggregationDelta + futureDelta)
       /\ renders = 1
       /\ err = "none"

\* ------------------------------------------------------------ C4
\* C4: after an operation has rendered, a second render() with the payload, filter,
\* window and layout as they are yields the same node uids, the same edge uids, the
\* same node attributes and the same active flags.
C4_RenderIdempotent ==
  (drawn /\ err = "none" /\ renders = 1) =>
    /\ render(Net).err = "none"
    /\ nodeUids(render(Net)) = nodeUids(Net)
    /\ edgeUids(render(Net)) = edgeUids(Net)
    /\ nodeAttributes(render(Net)) = nodeAttributes(Net)
    /\ edgeFlags(render(Net)) = edgeFlags(Net)

\* ------------------------------------------------------------ C5
\* C5: with the payload, the filter, the position and pastDelta as they are, the
\* edges rendered with the present aggregationDelta and futureDelta are all rendered
\* again with any aggregationDelta and futureDelta at least as large.
C5_ForwardMonotonic ==
  (lastOp = <<"handleDrag">> /\ delivered /\ err = "none") =>
    \A ad \in DeltaSet(timeSteps), fd \in DeltaSet(timeSteps) :
      (ad >= aggregationDelta /\ fd >= futureDelta) =>
        edgeUids(Net) \subseteq
          edgeUids(updateTime(Net, newTime(timeSteps, xInvert(timeSteps, currentValue),
                                           pastDelta, ad, fd)))

\* ------------------------------------------------------------ C6
\* the two windows of the scenario
WindowAtOne == [past |-> 0, time |-> 1, aggregated |-> 1, future |-> 2]
WindowAtTwo == [past |-> 1, time |-> 2, aggregated |-> 2, future |-> 2]
ScenarioLoaded ==
  /\ Has(allData, "links")
  /\ {allData.links[i].uid : i \in DOMAIN allData.links} = {<<"a", "_", "b">>, <<"b", "_", "c">>}
  /\ staleData = <<>>
  /\ filter = "all"

\* C6: after a render in temporal mode, a rendered edge with its timestamp in [time,
\* aggregated] has the active flag, and one with its timestamp in [past, time) or in
\* (aggregated, future] has not; for the scenario the window at time 1 shows a-b
\* active and b-c faded, and the window at time 2 shows a-b faded and b-c active.
C6_ActiveAndContext ==
  (temporal /\ drawn /\ err = "none" /\ renders = 1) =>
    /\ \A j \in DOMAIN edges :
          LET d == boundData(Net).links[edges[j].datum]
          IN /\ (d.time >= time.time /\ d.time <= time.aggregated) => edges[j].edge_active
             /\ (d.time >= time.past /\ d.time < time.time) => ~edges[j].edge_active
             /\ (d.time > time.aggregated /\ d.time <= time.future)
                  => ~edges[j].edge_active
    /\ (ScenarioLoaded /\ time = WindowAtOne) =>
          edgeFlags(Net) = {<< <<"a", "_", "b">>, TRUE >>, << <<"b", "_", "c">>, FALSE >>}
    /\ (ScenarioLoaded /\ time = WindowAtTwo) =>
          edgeFlags(Net) = {<< <<"a", "_", "b">>, FALSE >>, << <<"b", "_", "c">>, TRUE >>}

\* the scenario has been stepped to time 2: a-b is context, b-c is active
C6_Witness ==
  /\ temporal /\ err = "none" /\ lastOp = <<"updateTime">>
  /\ ScenarioLoaded /\ time = WindowAtTwo
  /\ edgeFlags(Net) = {<< <<"a", "_", "b">>, FALSE >>, << <<"b", "_", "c">>, TRUE >>}

\* ------------------------------------------------------------ C7
\* the uids of the loaded nodes of group g, of all loaded nodes for 'all'
ofGroup(data, g) ==
  {data.nodes[i].uid : i \in {k \in DOMAIN data.nodes :
                                g = "all" \/ (Has(data.nodes[k], "group")
                                               /\ data.nodes[k].group = g)}}

\* C7: updateFilter(g) on a loaded payload raises no error and renders exactly the
\* loaded nodes whose group is g (all of them for 'all'); when no node has group g
\* the scene has no node and no edge.  In either layout, temporal or not.
C7_FilterExact ==
  [][(lastOp' = <<"updateFilter">> /\ Has(allData, "nodes") /\ staleData = <<>>) =>
       /\ err' = "none"
       /\ nodeUids(Net)' = ofGroup(allData, filter')
       /\ (ofGroup(allData, filter') = {}) => (nodes' = <<>> /\ edges' = <<>>)]_vars

\* ------------------------------------------------------------ C8
\* C8: every rendered edge has both of its ends among the rendered nodes.
C8_EdgeEndsRendered ==
  \A j \in DOMAIN edges : endUids(Net, j) \subseteq nodeUids(Net)

\* a group filter has left an edge in the scene and taken another loaded link out
C8_Witness ==
  /\ lastOp = <<"updateFilter">> /\ err = "none" /\ filter # "all"
  /\ edges # <<>>
  /\ Len(edges) < Len(allData.links)
  /\ \A j \in DOMAIN edges : endUids(Net, j) \subseteq nodeUids(Net)

\* ------------------------------------------------------------ C9
\* the targets of the x and y forces lie within the margin
inMargin(f, size) == Margin * f[2] <= f[1] /\ f[1] <= (size - Margin) * f[2]

\* C9: updateLayout('euclidean') on a scene drawn in the force layout leaves the
\* rendered node uids and their number as they were, and gives every rendered node
\* an x target in [10, width - 10] and a y target in [10, height - 10].
C9_EuclideanKeepsNodes ==
  [][(lastOp' = <<"updateLayout">> /\ layout = "force" /\ layout' = "euclidean"
        /\ drawn /\ err = "none") =>
       /\ nodeUids(Net)' = nodeUids(Net)
       /\ Len(nodes') = Len(nodes)
       /\ forces'["x"] # <<>> /\ forces'["y"] # <<>>
       /\ Len(forces'["x"][1]) = Len(nodes')
       /\ \A j \in DOMAIN forces'["x"][1] :
             /\ inMargin(forces'["x"][1][j], width)
             /\ inMargin(forces'["y"][1][j], height)]_vars

\* ------------------------------------------------------------ C10
\* C10: after updateSearch('') every rendered node has its own colour as fill (its
\* color attribute, else the default) and carries no search marker.
C10_EmptySearchRestores ==
  (lastOp = <<"updateSearch", <<>> >> /\ err = "none") =>
    \A j \in DOMAIN nodes :
      LET d == boundData(Net).nodes[nodes[j].datum]
      IN /\ nodes[j].fill = getColor(d)
         /\ nodes[j].fill = (IF Has(d, "color") THEN d.color ELSE DefaultColor)
         /\ ~nodes[j].node_search
         /\ Has(d, "searched") /\ ~d.searched

\* updateSearch('') has run on a scene of which an earlier search had marked a node
C10_Witness ==
  /\ lastOp = <<"updateSearch", <<>> >> /\ err = "none"
  /\ nodes # <<>>
  /\ \E i \in DOMAIN allData.nodes :
        Has(allData.nodes[i], "searched") /\ allData.nodes[i].searched

\* ------------------------------------------------------------ C11
\* str contains pattern as a literal substring: character for character
containsLiteral(str, pattern) ==
  \E off \in 0..(Len(str) - Len(pattern)) :
     \A i \in DOMAIN pattern : pattern[i] = str[off + i]

\* C11: updateSearch(q) with q not empty, on a drawn scene, raises no error and
\* marks exactly the rendered nodes whose display name (label, else uid), in lower
\* case, contains q in lower case as a literal substring.
C11_SearchLiteral ==
  \A q \in SearchTerms \ {<<>>} :
    (lastOp = <<"updateSearch", q>> /\ drawn) =>
      /\ err = "none"
      /\ \A j \in DOMAIN nodes :
            LET d == boundData(Net).nodes[nodes[j].datum]
                lit == containsLiteral(toLowerCase(getName(d)), toLowerCase(q))
            IN /\ nodes[j].node_search = lit
               /\ Has(d, "searched") /\ d.searched = lit

\* ------------------------------------------------------------ configuration
\* config.x || d, for the values used here, none of which is falsy
orDefault(o, k, d) == IF Has(o, k) THEN o[k] ELSE d
Drop(o, ks) == [k \in DOMAIN o \ ks |-> o[k]]

DefaultSteps == 10
DefaultSpeed == 100

\* a configuration that gives every field the constructors read
FullConfig ==
  [width |-> 300, height |-> 200, temporal |-> TRUE, layout |-> "euclidean",
   euclidean |-> TRUE, radiusMinSize |-> 2, radiusMaxSize |-> 8,
   widgets |-> [tooltip |-> [size |-> "50px"],
                filter |-> [enabled |-> TRUE, groups |-> <<"g1", "g2">>],
                animation |-> [enabled |-> TRUE, speed |-> 50],
                aggregation |-> DefaultCfg],
   animation |-> [unit |-> "days", steps |-> MaxSteps]]

\* what a configuration may lack: fields of the top level, and by their path the
\* tooltip section and its size, the filter groups, the animation speed, and the
\* animation object with its unit and steps
TopFields == {"width", "height", "temporal", "layout", "euclidean", "radiusMinSize",
              "radiusMaxSize"}
Paths == TopFields \cup {"widgets.tooltip", "widgets.tooltip.size", "widgets.filter.groups",
                         "widgets.animation.speed", "animation", "animation.unit",
                         "animation.steps"}
\* at most this many of them are missing at once
MaxMissing == 2

pick(D, path, k) == IF path \in D THEN {k} ELSE {}
without(D) ==
  LET w == FullConfig.widgets
      w1 == [w EXCEPT !.tooltip = Drop(@, pick(D, "widgets.tooltip.size", "size")),
                      !.filter = Drop(@, pick(D, "widgets.filter.groups", "groups")),
                      !.animation = Drop(@, pick(D, "widgets.animation.speed", "speed"))]
      a1 == Drop(FullConfig.animation,
                 pick(D, "animation.unit", "unit") \cup pick(D, "animation.steps", "steps"))
      c1 == [FullConfig EXCEPT !.widgets = Drop(w1, pick(D, "widgets.tooltip", "tooltip")),
                               !.animation = a1]
  IN Drop(c1, (D \cap TopFields) \cup pick(D, "animation", "animation"))

Configs == {without(D) : D \in {X \in SUBSET Paths : Cardinality(X) <= MaxMissing}}

\* network(config): config.widgets.tooltip.size of a configuration without the
\* tooltip section throws a TypeError
network(c) ==
  IF ~Has(c.widgets, "tooltip") THEN [thrown |-> TRUE]
  ELSE [thrown |-> FALSE,
        width |-> orDefault(c, "width", width),
        height |-> orDefault(c, "height", height),
        temporal |-> orDefault(c, "temporal", FALSE),
        tooltipSize |-> orDefault(c.widgets.tooltip, "size", "100px"),
        radiusMinSize |-> orDefault(c, "radiusMinSize", radiusMinSize),
        radiusMaxSize |-> orDefault(c, "radiusMaxSize", radiusMaxSize),
        layout |-> orDefault(c, "layout", "force")]

\* activate(group, link): every button of the group loses the class active, the
\* button link gets it
activate(buttons, link) == buttons \cap {link}

\* setupMenu(container, config, network): selectAll('myOptions').data(undefined)
\* returns an array, and .enter() of it throws a TypeError.  The Force button is
\* created with the class active, the Euclidean button without it and is appended
\* only if config.euclidean === true
setupMenu(c) ==
  [thrown |-> ~Has(c.widgets.filter, "groups"),
   buttons |-> {"force"} \cup (IF Has(c, "euclidean") /\ c.euclidean = TRUE
                                THEN {"euclidean"} ELSE {}),
   active |-> {"force"}]

\* sliderMenu(container, config, network): config.animation.unit of a configuration
\* without the animation object throws a TypeError
sliderMenu(c) ==
  IF ~Has(c, "animation") THEN [thrown |-> TRUE]
  ELSE [thrown |-> FALSE,
        unit |-> orDefault(c.animation, "unit", "seconds"),
        timeSteps |-> orDefault(c.animation, "steps", DefaultSteps)]

ConfigInit ==
  /\ temporal = FALSE
  /\ layout = "force"
  /\ timeSteps = DefaultSteps
  /\ cfg = DefaultCfg
  /\ filter = "all"
  /\ time = ZeroTime
  /\ svg = FALSE
  /\ allData = <<>>
  /\ staleData = <<>>
  /\ linkedByIndex = {}
  /\ countExtent = <<>>
  /\ nodes = <<>>
  /\ edges = <<>>
  /\ drawn = FALSE
  /\ simNodes = <<>>
  /\ forces = NoForces
  /\ alpha = AlphaStart
  /\ alphaTarget = 0
  /\ sim = "stopped"
  /\ transform = zoomIdentity
  /\ zoomTo = <<>>
  /\ sceneTransform = <<>>
  /\ dragging = 0
  /\ fx = <<>>
  /\ inputs = 0
  /\ lastOp = <<"run">>
  /\ err = "none"
  /\ delivered = FALSE
  /\ renders = 0
  /\ SliderInit
  /\ config \in Configs
  /\ phase = "run"
  /\ built = <<>>

\* what a step of run leaves as it is
ConfigFrame ==
  UNCHANGED <<filter, time, svg, allData, staleData, linkedByIndex, countExtent, nodes,
              edges, drawn, simNodes, forces, delivered, renders, cfg, currentValue,
              pastDelta, futureDelta, aggregationDelta, aggregationShow, lookoutShow,
              handle, pastHandle, futureHandle, aggregationHandle, config, alpha,
              alphaTarget, sim, viewVars>>

\* var myNetwork = network(config)
NetworkNew ==
  /\ phase = "run"
  /\ \E r \in {network(config)} :
        IF r.thrown
        THEN /\ phase' = "aborted" /\ err' = "TypeError"
             /\ UNCHANGED <<temporal, layout, built>>
        ELSE /\ phase' = "network" /\ err' = "none"
             /\ temporal' = r.temporal
             /\ layout' = r.layout
             /\ built' = r
  /\ lastOp' = <<"network">>
  /\ UNCHANGED <<timeSteps, moving, timer, playText>>
  /\ ConfigFrame

\* widgets('#pathpy', config, myNetwork)
WidgetsNew ==
  /\ phase = "network"
  /\ \E r \in {setupMenu(config)} :
        IF r.thrown
        THEN phase' = "aborted" /\ err' = "TypeError" /\ UNCHANGED built
        ELSE phase' = "widgets" /\ err' = "none" /\ built' = r @@ built
  /\ lastOp' = <<"widgets">>
  /\ UNCHANGED <<temporal, layout, timeSteps, moving, timer, playText>>
  /\ ConfigFrame

\* if (config.temporal === true) slider('#pathpy', config, myNetwork)
SliderNew ==
  /\ phase = "widgets"
  /\ Has(config, "temporal") /\ config.temporal = TRUE
  /\ \E r \in {sliderMenu(config)} :
        IF r.thrown
        THEN /\ phase' = "aborted" /\ err' = "TypeError"
             /\ UNCHANGED <<timeSteps, built>>
        ELSE /\ phase' = "slider" /\ err' = "none"
             /\ timeSteps' = r.timeSteps
             /\ built' = r @@ built
  /\ lastOp' = <<"slider">>
  /\ UNCHANGED <<temporal, layout, moving, timer, playText>>
  /\ ConfigFrame

\* the first click on Play: d3.interval(step, config.widgets.animation.speed || 100)
FirstPlay ==
  /\ phase = "slider"
  /\ phase' = "playing"
  /\ built' = ("speed" :> orDefault(config.widgets.animation, "speed", DefaultSpeed)) @@ built
  /\ moving' = TRUE /\ timer' = "running" /\ playText' = "Pause"
  /\ lastOp' = <<"playClick">>
  /\ err' = "none"
  /\ UNCHANGED <<temporal, layout, timeSteps>>
  /\ ConfigFrame

\* a click on a button of the layout control: activate('layout', b), then
\* network.updateLayout(b)
LayoutButton ==
  \E b \in Layouts :
    /\ Has(built, "buttons") /\ b \in built.buttons
    /\ phase \in {"widgets", "slider", "playing"}
    /\ built' = [built EXCEPT !.active = activate(built.buttons, b)]
    /\ \E R \in {updateLayout(Net, b)} : SetNet(R, <<"updateLayout", b>>)
    /\ renders' = 1
    /\ UNCHANGED <<timeSteps, cfg, currentValue, pastDelta, futureDelta, aggregationDelta,
                   aggregationShow, lookoutShow, moving, timer, playText, handle,
                   pastHandle, futureHandle, aggregationHandle, config, phase, viewVars,
                   delivered>>

ConfigNext ==
  \/ NetworkNew
  \/ WidgetsNew
  \/ SliderNew
  \/ FirstPlay
  \/ LayoutButton

ConfigSpec == ConfigInit /\ [][ConfigNext]_vars

\* ------------------------------------------------------------ C12
\* the value a field has after construction: its own, or the default when missing
fallsBack(o, k, d, got) == got = (IF Has(o, k) THEN o[k] ELSE d)

\* C12: constructing the renderer, the widget bar and the slider never raises an
\* error, whatever optional fields the configuration lacks, and every field that is
\* missing has its default: width and height 400, radius range [4, 16], layout
\* 'force', temporal false, steps 10, speed 100, unit 'seconds'.
C12_ConfigDefaults ==
  /\ phase # "aborted"
  /\ Has(built, "width") =>
        /\ fallsBack(config, "width", 400, built.width)
        /\ fallsBack(config, "height", 400, built.height)
        /\ fallsBack(config, "radiusMinSize", 4, built.radiusMinSize)
        /\ fallsBack(config, "radiusMaxSize", 16, built.radiusMaxSize)
        /\ fallsBack(config, "layout", "force", layout)
        /\ fallsBack(config, "temporal", FALSE, temporal)
  /\ Has(built, "unit") =>
        /\ fallsBack(config.animation, "unit", "seconds", built.unit)
        /\ fallsBack(config.animation, "steps", 10, timeSteps)
  /\ Has(built, "speed") =>
        fallsBack(config.widgets.animation, "speed", 100, built.speed)

\* ------------------------------------------------------------ C13
\* C13: in temporal mode, mounting or reloading a payload that has no 'changes' list
\* completes without error, draws the scene, and leaves every node with the
\* attributes the payload gave it.
C13_NoChangesNoPatch ==
  (temporal /\ lastOp \in {<<"chart", "plain">>, <<"updateData", "plain">>}) =>
    /\ err = "none"
    /\ drawn
    /\ \A i \in DOMAIN allData.nodes :
          \A k \in DOMAIN PayPlain.nodes[i] : allData.nodes[i][k] = PayPlain.nodes[i][k]

\* ------------------------------------------------------------ C14
inRange(k) == k[2] <= 2 * k[1] /\ k[1] <= 4 * k[2]
\* k times n/d, and no more than 4 and no less than 1/2
limited(k, n, d) ==
  IF k[1] * n * 2 < k[2] * d THEN <<1, 2>>
  ELSE IF k[1] * n > 4 * k[2] * d THEN <<4, 1>>
  ELSE fraction(k[1] * n, k[2] * d)

\* C14: the zoom scale is always within [1/2, 4]; on the mounted chart
\* updateZoom('zoom_in') starts a transition to 1.2 times the current scale and
\* updateZoom('zoom_out') to 0.8 times it, each limited to that range and about
\* the centre of the viewport, and updateZoom('zoom_init') to the identity.
C14_ZoomStep ==
  [][/\ inRange(transform'.k)
     /\ zoomTo' # <<>> => inRange(zoomTo'[1].k)
     /\ (svg /\ inputs' # inputs /\ lastOp' = <<"updateZoom", "zoom_in">>) =>
           zoomTo' = <<[transform' EXCEPT !.k = limited(transform'.k, 12, 10)]>>
     /\ (svg /\ inputs' # inputs /\ lastOp' = <<"updateZoom", "zoom_out">>) =>
           zoomTo' = <<[transform' EXCEPT !.k = limited(transform'.k, 8, 10)]>>
     /\ (svg /\ inputs' # inputs /\ lastOp' = <<"updateZoom", "zoom_init">>) =>
           zoomTo' = <<[k |-> <<1, 1>>, cx |-> 200, cy |-> 200]>>
    ]_vars

\* '+' on a scale above 4 / 1.2 and below 4: the transition runs to 4
C14_Witness ==
  /\ lastOp = <<"updateZoom", "zoom_in">>
  /\ zoomTo # <<>>
  /\ zoomTo[1].k = <<4, 1>>
  /\ transform.k # <<4, 1>>
  /\ transform.cx # 200

\* ------------------------------------------------------------ C15
\* the rendered edges with the timestamp in [time, aggregated], and those with it in
\* [past, time) or (aggregated, future]
aggregatedEdges ==
  {j \in DOMAIN edges :
     LET d == boundData(Net).links[edges[j].datum]
     IN d.time >= time.time /\ d.time <= time.aggregated}
lookoutEdges ==
  {j \in DOMAIN edges :
     LET d == boundData(Net).links[edges[j].datum]
     IN \/ d.time >= time.past /\ d.time < time.time
        \/ d.time > time.aggregated /\ d.time <= time.future}
activeEdges == {j \in DOMAIN edges : edges[j].edge_active}
fadedEdges == {j \in DOMAIN edges : ~edges[j].edge_active}

\* C15, as the code has it: after a render in temporal mode the rendered edges with
\* the active flag are exactly those whose timestamp lies in [time, aggregated], and
\* the rendered edges without it are exactly those whose timestamp lies in
\* [past, time) or in (aggregated, future].
C15_ActiveInside ==
  (temporal /\ drawn /\ err = "none" /\ renders = 1) =>
    /\ activeEdges = aggregatedEdges
    /\ fadedEdges = lookoutEdges

\* C15, as the spec has it: the active edges are exactly those in [past, time) or
\* (aggregated, future], and the faded ones exactly those in [time, aggregated].
C15_ActiveOutside ==
  (temporal /\ drawn /\ err = "none" /\ renders = 1) =>
    /\ activeEdges = lookoutEdges
    /\ fadedEdges = aggregatedEdges

\* the scenario at time 1: one edge of each kind
C15_Witness ==
  /\ temporal /\ drawn /\ err = "none" /\ renders = 1
  /\ ScenarioLoaded /\ time = WindowAtOne
  /\ activeEdges # {} /\ fadedEdges # {}
  /\ activeEdges = aggregatedEdges

\* ------------------------------------------------------------ C16
deltas == <<pastDelta, futureDelta, aggregationDelta>>
handles == <<pastHandle, handle, aggregationHandle, futureHandle>>

\* C16: the three deltas are never negative; after every slider operation the
\* handles stand in the order past <= primary <= aggregation <= future; and a drag
\* of the past handle onto or beyond the primary handle, or of the future or the
\* aggregation handle onto or before it, changes neither the deltas, nor a handle,
\* nor the window of the renderer.
C16_AuxiliaryDrags ==
  [][/\ pastDelta' >= 0 /\ futureDelta' >= 0 /\ aggregationDelta' >= 0
     /\ pastHandle' <= handle' /\ handle' <= aggregationHandle'
     /\ aggregationHandle' <= futureHandle'
     /\ (lastOp'[1] = "pastUpdate" /\ lastOp'[2] >= handle) =>
           UNCHANGED <<deltas, handles, time>>
     /\ (lastOp'[1] \in {"futureUpdate", "aggregationUpdate"} /\ lastOp'[2] <= handle) =>
           UNCHANGED <<deltas, handles, time>>
    ]_vars

\* on the mounted chart, with the lookout shown and the primary handle at step 1, the
\* past handle has been dragged to the end of the track and nothing has moved
C16_Witness ==
  /\ lastOp = <<"pastUpdate", targetValue(timeSteps)>>
  /\ err = "none" /\ drawn
  /\ handle = Unit /\ pastDelta = 1 /\ pastHandle = 0

\* ------------------------------------------------------------ C17
\* C17: while play runs on the mounted chart, a tick of the timer with the stored
\* position on step k pushes a window with time k, and then stores step k + 1 and
\* leaves the timer running if k + 1 + aggregationDelta is at most the step count;
\* otherwise k was the last step and the animation stops.  So from the start the
\* pushed times are 0, 1, ..., stepCount - aggregationDelta.
C17_TickAdvances ==
  [][(delivered /\ lastOp' = <<"step">> /\ currentValue % Unit = 0
        /\ currentValue >= 0 /\ currentValue <= targetValue(timeSteps)) =>
       LET k == currentValue \div Unit
       IN /\ err' = "none"
          /\ time'.time = k
          /\ IF k + 1 + aggregationDelta <= timeSteps
             THEN currentValue' = (k + 1) * Unit /\ timer' = "running"
             ELSE timer' = "stopped"
    ]_vars

\* ------------------------------------------------------------ C18
\* C18: once the user gives no further input, a running animation stops by itself:
\* the timer is cancelled (no tick happens without a running timer), the button
\* reads 'Play', moving is false and the stored position is 0.
C18_AutoStop ==
  (timer = "running" /\ inputs = MaxClicks) ~>
    (timer = "stopped" /\ playText = "Play" /\ ~moving /\ currentValue = 0)

\* the animation has stopped by itself after the last input
C18_Witness ==
  /\ inputs = MaxClicks /\ lastOp = <<"step">> /\ delivered
  /\ timer = "stopped" /\ playText = "Play" /\ ~moving /\ currentValue = 0

\* ------------------------------------------------------------ C19
\* C19: a click on 'Pause' cancels the timer and leaves the stored position, the
\* deltas, the handles and the window of the renderer as they are; the click on
\* 'Play' that follows starts the timer at that same position.
C19_PauseKeeps ==
  [][/\ (lastOp' = <<"playClick">> /\ playText = "Pause" /\ playText' = "Play") =>
           /\ timer' = "stopped" /\ ~moving'
           /\ UNCHANGED <<currentValue, deltas, handles, time>>
     /\ (lastOp' = <<"playClick">> /\ playText = "Play" /\ playText' = "Pause") =>
           /\ timer' = "running" /\ moving'
           /\ UNCHANGED <<currentValue, deltas, handles, time>>
    ]_vars

\* the animation was paused on its way and has been resumed there
C19_Witness ==
  /\ lastOp = <<"playClick">> /\ delivered /\ inputs = MaxClicks
  /\ timer = "running" /\ playText = "Pause"
  /\ currentValue > 0 /\ time.time > 0

\* ------------------------------------------------------------ C20
\* C20: once a node drag has ended and no further input arrives, the simulation
\* reaches its 'end' event, also when render() has restarted it in between.
C20_Resettles == (lastOp = <<"dragended">>) ~> (sim = "ended" \/ dragging # 0)

\* ------------------------------------------------------------ C21
DragOps == {"dragstarted", "dragged", "dragended"}

\* C21: a node is pinned exactly while it is dragged: drag start pins it where it is,
\* a drag event moves the pin to the pointer, drag end clears the pin, and no other
\* operation (a render from updateLayout, updateFilter or updateTime, a tick of the
\* simulation) changes the pin.
C21_PinOnlyWhileDragged ==
  [][/\ (lastOp'[1] \notin DragOps \/ lastOp' = lastOp) => UNCHANGED <<dragging, fx>>
     /\ (lastOp' # lastOp /\ lastOp'[1] = "dragstarted") =>
           dragging = 0 /\ dragging' # 0 /\ fx' = <<lastOp'[2]>>
     /\ (lastOp' # lastOp /\ lastOp'[1] = "dragged") =>
           dragging' = dragging /\ dragging # 0 /\ fx' = <<lastOp'[2]>>
     /\ (lastOp' # lastOp /\ lastOp'[1] = "dragended") =>
           dragging # 0 /\ dragging' = 0 /\ fx' = <<>>
     /\ (fx' # <<>>) <=> (dragging' # 0)
    ]_vars

\* a window pushed by the slider has been rendered while a node is held
C21_Witness ==
  /\ lastOp = <<"updateTime">> /\ err = "none" /\ renders = 1
  /\ dragging # 0 /\ fx # <<>>
  /\ sim = "running"

\* ------------------------------------------------------------ C22
\* the forces a layout attaches
forcesOf(l) ==
  IF l = "euclidean" THEN {"charge", "x", "y"} ELSE {"links", "center", "charge"}

\* C22: after updateLayout, updateFilter, updateTime or updateData on a loaded
\* payload, the forces attached to the simulation are exactly links, center and
\* charge in the force layout and exactly charge, x and y in the euclidean layout.
C22_ForcesOfLayout ==
  (/\ lastOp[1] \in {"updateLayout", "updateFilter", "updateTime", "updateData"}
   /\ Has(allData, "nodes")
   /\ (temporal => Has(allData, "changes"))) =>
    attached(forces) = forcesOf(layout)

\* what is left of the claim when a render that threw is set aside
ForcesAfterRender ==
  (lastOp[1] \in {"chart", "updateLayout", "updateFilter", "updateTime", "updateData"}
     /\ err = "none" /\ renders = 1) =>
    attached(forces) = forcesOf(layout)

\* ------------------------------------------------------------ C23
\* The node selection is in document order: an element that stays keeps its place,
\* entering elements are appended, so the place of an element in the selection tells
\* which element it is.  The uid the element at place j is bound to:
uidAt(S, j) == boundData(S).nodes[S.nodes[j].datum].uid
\* the places of the elements bound to uid id
elementsOf(S, id) == {j \in DOMAIN S.nodes : uidAt(S, j) = id}

\* C23: a render after a change of filter or window gives a new node element to
\* exactly the uids that were not rendered before, removes the elements of exactly
\* the uids that are no longer wanted, and leaves every uid that stays on the element
\* it was bound to.
C23_NodesByUid ==
  [][(/\ lastOp'[1] \in {"updateFilter", "updateTime"}
      /\ drawn /\ staleData = <<>> /\ err' = "none" /\ renders' = 1) =>
       /\ \A id \in nodeUids(Net) \cap nodeUids(Net)' :
             elementsOf(Net, id)' = elementsOf(Net, id)
       /\ \A j \in DOMAIN nodes' :
             (j > Len(nodes)) <=> (uidAt(Net, j)' \notin nodeUids(Net))
       /\ \A j \in DOMAIN nodes :
             (j > Len(nodes')) <=> (uidAt(Net, j) \notin nodeUids(Net)')
    ]_vars

\* ------------------------------------------------------------ C24
\* the loaded links both of whose ends are rendered nodes
betweenRendered ==
  {i \in DOMAIN allData.links :
     {allData.nodes[allData.links[i].source].uid,
      allData.nodes[allData.links[i].target].uid} \subseteq nodeUids(Net)}
\* the loaded links with a timestamp t, past <= t <= future
timedInside ==
  {i \in DOMAIN allData.links :
     /\ Has(allData.links[i], "time")
     /\ time.past <= allData.links[i].time
     /\ allData.links[i].time <= time.future}

\* C24: after a render in temporal mode the rendered edges are exactly the loaded
\* links between rendered nodes whose timestamp lies in [past, future], both ends
\* included; with temporal mode off they are the loaded links between rendered
\* nodes, whatever the window and the timestamps are.
C24_EdgesInWindow ==
  (drawn /\ err = "none" /\ renders = 1) =>
    /\ {edges[j].datum : j \in DOMAIN edges} =
          IF temporal THEN betweenRendered \cap timedInside ELSE betweenRendered
    /\ Len(edges) = Cardinality({edges[j].datum : j \in DOMAIN edges})

\* a pushed window has an edge at its future end in the scene and leaves a loaded
\* link between rendered nodes out
C24_Witness ==
  /\ temporal /\ lastOp = <<"updateTime">> /\ err = "none"
  /\ \E j \in DOMAIN edges : allData.links[edges[j].datum].time = time.future
  /\ betweenRendered \ timedInside # {}

\* ------------------------------------------------------------ C25
Renders == {"chart", "updateData", "updateLayout", "updateFilter", "updateTime"}

\* C25: a render in temporal mode applies exactly the change records of the
\* window's current time whose uid is a node that passes the group filter: every
\* attribute such a record carries is overwritten on the node, the last record of
\* the payload that carries it giving the value, and every other attribute of every
\* node is left as it was; a second render with the same records changes no node.
C25_ChangesApplied ==
  [][/\ (temporal /\ lastOp[1] \in Renders /\ err = "none" /\ renders = 1) =>
          render(Net).allData.nodes = allData.nodes
     /\ (temporal /\ lastOp'[1] \in Renders /\ err' = "none" /\ renders' = 1) =>
          \A base \in {IF lastOp'[1] \in {"chart", "updateData"}
                        THEN setupData(Net, Payload(lastOp'[2])).data.nodes
                        ELSE allData.nodes} :
            \A recs \in {allData'.changes}, after \in {allData'.nodes} :
              LET passes(i) == \/ filter' = "all"
                               \/ /\ Has(base[i], "group")
                                  /\ base[i].group = filter'
                                  /\ base[i].group # ""
                  due(i) == {k \in DOMAIN recs :
                               /\ recs[k].time = time'.time
                               /\ recs[k].uid = base[i].uid
                               /\ passes(i)}
                  giving(i, key) == {k \in due(i) : Has(recs[k], key)}
              IN /\ DOMAIN after = DOMAIN base
                 /\ \A i \in DOMAIN base :
                       /\ DOMAIN after[i] =
                            DOMAIN base[i] \cup UNION {DOMAIN recs[k] : k \in due(i)}
                       /\ \A key \in DOMAIN after[i] :
                             after[i][key] =
                               IF giving(i, key) = {} THEN base[i][key]
                               ELSE recs[SetMax(giving(i, key))][key]
    ]_vars

\* the scenario at time 1: of the two records of node a the later one has given the
\* colour, and the record of node b, of time 2, has changed nothing
C25_Witness ==
  /\ temporal /\ lastOp = <<"updateTime">> /\ err = "none" /\ time.time = 1
  /\ Has(allData, "changes") /\ Len(allData.changes) = 3
  /\ allData.nodes[1].color = "black"
  /\ allData.nodes[2].size = 6 /\ allData.nodes[2].group = "g1"

\* ------------------------------------------------------------ C26
\* the loaded payload has a link between the nodes a and b, in either direction
linked(data, a, b) ==
  \E i \in DOMAIN data.links :
    {data.nodes[data.links[i].source].uid, data.nodes[data.links[i].target].uid}
      = {a.uid, b.uid}

\* C26: after updateData has loaded a payload, two of its nodes are reported as
\* neighbours exactly when the payload has a link between them, in either
\* direction; a link of a payload loaded before counts no longer.
C26_IndexRebuilt ==
  (lastOp[1] = "updateData" /\ Has(allData, "nodes")
     /\ ~setupData(Net, Payload(lastOp[2])).thrown) =>
    \A i \in DOMAIN allData.nodes, j \in DOMAIN allData.nodes :
      neighboring(Net, allData.nodes[i], allData.nodes[j])
        <=> linked(allData, allData.nodes[i], allData.nodes[j])

\* ------------------------------------------------------------ C27
\* the datum of the node element k
datumAt(k) == boundData(Net).nodes[nodes[k].datum]

\* C27: after the pointer has entered the element of node d, a rendered node n is
\* highlighted exactly when n is d, or n carries the searched flag, or the adjacency
\* index has a key for d and n in either direction, and a rendered edge is
\* highlighted exactly when d is one of its ends; after the pointer has left, no node
\* and no edge is highlighted.
C27_HoverHighlights ==
  /\ lastOp[1] = "highlightNode" =>
        LET d == datumAt(lastOp[2])
        IN /\ \A k \in DOMAIN nodes :
                 nodes[k].node_highlight <=>
                   \/ datumAt(k).uid = d.uid
                   \/ (Has(datumAt(k), "searched") /\ datumAt(k).searched)
                   \/ (d.uid \o <<"_">> \o datumAt(k).uid) \in linkedByIndex
                   \/ (datumAt(k).uid \o <<"_">> \o d.uid) \in linkedByIndex
           /\ \A e \in DOMAIN edges : edges[e].edge_highlight <=> d.uid \in endUids(Net, e)
  /\ lastOp[1] = "unhighlightNode" =>
        /\ \A k \in DOMAIN nodes : ~nodes[k].node_highlight
        /\ \A e \in DOMAIN edges : ~edges[e].edge_highlight

\* the pointer is over a node: a node that is neither it nor linked to it is
\* highlighted because a search has marked it, one edge is highlighted and one is not
C27_Witness ==
  /\ lastOp[1] = "highlightNode"
  /\ \E k \in DOMAIN nodes :
        /\ nodes[k].node_highlight
        /\ datumAt(k).uid # datumAt(lastOp[2]).uid
        /\ ~neighboring(Net, datumAt(lastOp[2]), datumAt(k))
  /\ \E e \in DOMAIN edges : edges[e].edge_highlight
  /\ \E e \in DOMAIN edges : ~edges[e].edge_highlight

\* ------------------------------------------------------------ C28
\* C28: after updateSearch(q) no loaded node whose name does not match q carries
\* the searched flag, whatever filter and window changes came between this search
\* and the one before; after updateSearch('') no loaded node carries it.
C28_SearchClears ==
  \A q \in SearchTerms :
    (lastOp = <<"updateSearch", q>> /\ err = "none") =>
      \A i \in DOMAIN allData.nodes :
        searched(allData.nodes[i]) =>
          /\ Len(q) > 0
          /\ search(toLowerCase(getName(allData.nodes[i])), toLowerCase(q))

\* ------------------------------------------------------------ C29
Gestures == {"wheel", "pan"}

C30_RadiusInRange ==
  /\ (lastOp[1] \in {"chart", "updateData"} /\ Has(allData, "nodes")
        /\ ~setupData(Net, Payload(lastOp[2])).thrown) =>
       countExtent = d3extent(Payload(lastOp[2]).nodes)
  /\ \A j \in DOMAIN nodes :
       /\ radiusMinSize * nodes[j].r[2] <= nodes[j].r[1]
       /\ nodes[j].r[1] <= radiusMaxSize * nodes[j].r[2]

\* ------------------------------------------------------------ C31
\* C31: a click on a layout button invokes one renderer operation, and from the
\* construction of the widget bar on exactly one layout button is marked active and
\* it names the layout the renderer uses, also when the configured initial layout is
\* 'euclidean'.
C31_ActiveNamesLayout ==
  Has(built, "active") =>
    /\ built.active = {layout}
    /\ lastOp[1] = "updateLayout" => renders = 1 /\ layout = lastOp[2]

\* ------------------------------------------------------------ C32
\* C32: in every reachable slider state the interval timer is active iff moving is
\* true iff the play button reads 'Pause'; a click that creates a timer finds none
\* active, so at most one is, and timer.stop() is called, by a click or by step,
\* only on a timer that was created and is active.
C32_OneTimer ==
  /\ []((timer = "running" <=> moving) /\ (moving <=> playText = "Pause"))
  /\ [][/\ (lastOp' = <<"playClick">> /\ playText' = "Pause") => timer # "running"
        /\ (lastOp' = <<"playClick">> /\ playText' = "Play") => timer = "running"
        /\ (lastOp' = <<"step">> /\ timer' = "stopped") => timer = "running"
       ]_vars

\* the animation was paused on its way: stop was called on the timer Play created
C32_Witness ==
  /\ lastOp = <<"playClick">> /\ timer = "stopped" /\ ~moving /\ playText = "Play"
  /\ currentValue > 0 /\ delivered

\* ------------------------------------------------------------ C33
\* the toggles and the drags of the three auxiliary handles
WidthOps == {"aggregationClick", "lookoutClick", "pastUpdate", "futureUpdate",
             "aggregationUpdate"}

\* C33: toggling Aggregate or Lookout, or dragging the past, future or aggregation
\* handle, never changes the current instant: the window such an operation pushes
\* has the time marker of the window pushed last before it, also while play is
\* paused or has stopped by itself.
C33_WidthOpsKeepInstant ==
  [][(delivered /\ lastOp'[1] \in WidthOps) => time'.time = time.time]_vars

\* ------------------------------------------------------------ C34
\* C34: whenever the Aggregate toggle is off aggregationDelta is 0, and whenever the
\* Lookout toggle is off pastDelta and futureDelta are 0; so while both toggles are
\* off the window the renderer was given last has past = time = aggregated = future.
C34_OffMeansZero ==
  /\ ~aggregationShow => aggregationDelta = 0
  /\ ~lookoutShow => pastDelta = 0 /\ futureDelta = 0
  /\ (~aggregationShow /\ ~lookoutShow) =>
        time.past = time.time /\ time.aggregated = time.time /\ time.future = time.time

\* the Lookout toggle was switched off just now, away from the start, and the three
\* auxiliary handles sit on the primary handle
C34_Witness ==
  /\ lastOp = <<"lookoutClick">> /\ ~lookoutShow /\ ~aggregationShow
  /\ delivered /\ renders = 1 /\ time.time > 0
  /\ aggregationHandle = handle /\ pastHandle = handle /\ futureHandle = handle

\* ------------------------------------------------------------ C35
\* the scene shows the nodes the group filter lets through, laid out by the forces
\* of the current layout, and in temporal mode the edges of the current window
SceneOfSettings ==
  /\ nodeUids(Net) = ofGroup(Payload(lastOp[2]), filter)
  /\ attached(forces) = forcesOf(layout)
  /\ {edges[j].datum : j \in DOMAIN edges} =
        IF temporal THEN betweenRendered \cap timedInside ELSE betweenRendered

\* C35: a widget or slider command that fires before the payload has been mounted
\* raises no error, and the scene rendered once the payload arrives reflects the
\* filter, the layout and the time those commands have set.
C35_EarlyInputSafe ==
  /\ ~delivered => err = "none"
  /\ (lastOp[1] = "chart" /\ err = "none") => SceneOfSettings

\* ------------------------------------------------------------ C36
\* the renderer as network(config) leaves it, with the filter chosen before the
\* payload arrives
constructed(S) ==
  [S EXCEPT !.time = ZeroTime, !.svg = FALSE, !.allData = <<>>, !.staleData = <<>>,
            !.linkedByIndex = {}, !.countExtent = <<>>, !.nodes = <<>>, !.edges = <<>>,
            !.drawn = FALSE, !.simNodes = <<>>, !.forces = NoForces]

\* the scenario mounted on it and the window w pushed once
direct(S, w) == updateTime(chart(constructed(S), PayScenario), w)

\* C36: the node attributes shown after updateTime(w) depend only on the payload and
\* on w: whatever sequence of updateTime calls has led to the window w, every node
\* has the attributes it has when w is pushed right after the mount.
C36_WindowDetermines ==
  (temporal /\ lastOp[1] = "updateTime" /\ err = "none") =>
    nodeAttributes(Net) = nodeAttributes(direct(Net, time))

\* ------------------------------------------------------------ C37
\* C37: from an updateSearch to the next, across every render in between, the
\* element bound to a node the search has matched carries the search class and the
\* marker colour, and no element bound to another node carries either.
C37_MarkerKept ==
  (drawn /\ err = "none") =>
    \A j \in DOMAIN nodes :
      LET d == boundData(Net).nodes[nodes[j].datum]
      IN IF searched(d)
         THEN nodes[j].node_search /\ nodes[j].fill = SearchColor
         ELSE ~nodes[j].node_search /\ nodes[j].fill # SearchColor

\* ------------------------------------------------------------ C38
\* C38: distinct links of the payload have distinct edge uids after the load, also
\* two links between the same two nodes with different timestamps, and the keyed
\* join binds exactly one element to each loaded link that passes the filters.
C38_EdgeUidsDistinct ==
  (lastOp[1] \in {"chart", "updateData"} /\ err = "none") =>
    /\ \A i, k \in DOMAIN allData.links :
          i # k => allData.links[i].uid # allData.links[k].uid
    /\ \A i \in (IF temporal THEN betweenRendered \cap timedInside ELSE betweenRendered) :
          Cardinality({j \in DOMAIN edges : edges[j].datum = i}) = 1

\* ------------------------------------------------------------ C39
\* the loaded links without a timestamp
untimed == {i \in DOMAIN allData.links : ~Has(allData.links[i], "time")}

\* C39: in temporal mode a link without a timestamp is never rendered, whatever the
\* window is; with temporal mode off it is rendered whenever both of its end nodes
\* pass the group filter.
C39_UntimedEdges ==
  (drawn /\ err = "none" /\ renders = 1) =>
    {edges[j].datum : j \in DOMAIN edges} \cap untimed =
       IF temporal THEN {} ELSE betweenRendered \cap untimed

\* temporal mode: both ends of the link without a timestamp are in the scene, the
\* window holds a timed link, and the scene shows only that one
C39_Witness ==
  /\ temporal /\ drawn /\ err = "none" /\ lastOp = <<"updateTime">>
  /\ betweenRendered \cap untimed # {}
  /\ edges # <<>>
  /\ \A j \in DOMAIN edges : edges[j].datum \notin untimed

====
